---- MODULE Spec2Model ----
(***************************************************************************)
(* Batch order-creation orchestrator (POST /api/orders/create), the cancel *)
(* request (POST /api/orders/cancel) and the batch row they share, as      *)
(* implemented in server/routes.ts over DatabaseStorage (server/storage.ts)*)
(*                                                                         *)
(* Every await of the handlers is one action, so that a cancel request can *)
(* interleave with the run exactly where the event loop allows it.  The    *)
(* createOrder calls of one wave are issued together (the for loop that    *)
(* builds batchPromises contains no await) and settle one by one, in any   *)
(* order, each either fulfilled or rejected.                               *)
(***************************************************************************)
EXTENDS Integers, Sequences, FiniteSets, TLC

\* ---------------------------------------------------------------- bounds
MaxOrderCount == 11     \* largest orderCount a configuration carries here
MaxFailures == 1        \* most createOrder calls the remote service rejects
MaxCancels == 1         \* most cancel requests sent for the batch
MaxBatchOrderCount == 2 \* largest count when batch and configuration differ
MaxExcess == 1           \* how far a raw orderCount exceeds the limit of 30000

\* requests that build an order template at the same time
MaxCallers == 2

\* entries of a stored createdOrders list that a deletion walks
MaxStoredOrders == 6

\* remote requests of one purge that are answered out of the ordinary
MaxRemoteFaults == 1

\* line items of the order whose location is updated
MaxLineItems == 2

\* ------------------------------------------------------ program constants
BATCH_SIZE == 10
MAX_ORDER_COUNT == 30000

null == "<null>"
CANCELLED_MESSAGE == "Cancelled by user"

VARIABLES
  batch,            \* the order_batches row of the batch id
  rawOrderCount,    \* orderConfig.orderCount of the request
  pc,               \* position of the POST /api/orders/create handler
  orderCount,       \* clamped order count (local)
  batchStart,       \* loop variable of the wave loop
  currentBatch,     \* last row read by the handler (local)
  createdOrders,    \* local result list
  batchPromises,    \* createOrder promises of the wave in flight
  finalStatus,      \* local
  errorMessage,     \* local
  response,         \* JSON body answered by the run, or NoResponse
  caught,           \* message of the error caught by the handler's catch
  cancelPc,         \* position of the POST /api/orders/cancel handler
  cancelCount,      \* cancel requests sent so far
  cancelWritten,    \* history: a cancel request has written its sentinel
  cancelDuringRun,  \* history: ... and did so while the run was in progress
  thrown,           \* history: indices i whose createOrder call threw
  issuedAfterCancel,\* history: createOrder calls issued after that write
  stoppedByCancel,  \* history: the wave loop took the cancellation break
  progressLog,      \* history: progress values persisted by the run
  attempted,        \* history: createOrder calls issued so far
  waveLog,          \* history: [from, to) index range of every wave issued
  finalizations,    \* history: completeOrderBatch writes of the run
  settledOutOfOrder,\* history: in the wave last issued a call settled
                    \* before a call of lower index
  \* --- createShopifyOrderFromConfig, one call per create request
  productCache,     \* module-level Map: SKU -> cached product data
  tplConfig,        \* per caller: config.lineItems
  tplPc,            \* per caller: position in createShopifyOrderFromConfig
  tplLineItems,     \* per caller: lineItems built so far (local)
  tplOutcome,       \* history, per caller: how each line item was resolved
  \* --- bulk deletion: deleteBatchesMutation and DELETE /api/batches/:id
  rows,             \* order_batches rows by id (exists, createdOrders)
  remote,           \* ids of the orders that exist in the remote shop
  delIds,           \* batchesToDelete.ids
  deleteFromShopify,\* batchesToDelete.deleteFromShopify
  clientPc,         \* position of deleteBatchesMutation
  clientIdx,        \* its loop variable i
  succeeded,        \* its counter
  failed,           \* its counter
  handlerPc,        \* position of the DELETE /api/batches/:id handler
  handlerBatch,     \* row read by the handler (local)
  subStart,         \* loop variable i of the sub-wave loop
  deletePromises,   \* deleteOrder promise of every valid order
  shopifyDeletionResults, \* {deletedCount, failedCount} (local)
  httpStatus,       \* status answered by the last DELETE request
  deleted,          \* what storage.deleteOrderBatch returned (local)
  attempts,         \* history: one entry per id the client has dealt with
  \* --- MemStorage, the storage that is not in use
  memBatch,         \* the batch's entry of MemStorage.orderBatches
  \* --- ShopifyAPI.updateOrderLocationFromTags
  locationId,       \* its argument
  lineItems,        \* order.line_items of the remote order (their count)
  approachIdx,      \* loop variable i over approaches
  approachStep,     \* requests the approach at work has completed
  requests,         \* history: every request sent, with its answer
  locResult,        \* how the call ended: returned value or thrown error
  \* --- DELETE /api/configurations/:id
  orderConfigurations, \* ids of the rows of order_configurations
  orderBatches,     \* order_batches rows by id, with their configurationId
  cfgId,            \* req.params.id
  cfgPc,            \* position of the handler
  linkedBatches,    \* ids of the linked batches still to unlink (local)
  unlinked,         \* history: ids of the batches the handler found linked
  cfgStatus         \* status answered by the handler

orchVars == <<batch, rawOrderCount, pc, orderCount, batchStart, currentBatch,
          createdOrders, batchPromises, finalStatus, errorMessage, response,
          cancelPc, cancelCount, cancelWritten, cancelDuringRun, thrown,
          issuedAfterCancel, stoppedByCancel, progressLog, caught, attempted,
          waveLog, finalizations, settledOutOfOrder>>

cacheVars == <<productCache, tplConfig, tplPc, tplLineItems, tplOutcome>>

deleteVars == <<rows, remote, delIds, deleteFromShopify, clientPc, clientIdx,
                succeeded, failed, handlerPc, handlerBatch, subStart,
                deletePromises, shopifyDeletionResults, httpStatus, deleted,
                attempts>>

\* state the create and cancel handlers never touch
memVars == <<memBatch>>

locVars == <<locationId, lineItems, approachIdx, approachStep, requests,
             locResult>>

cfgVars == <<orderConfigurations, orderBatches, cfgId, cfgPc, linkedBatches,
             unlinked, cfgStatus>>

auxVars == <<cacheVars, deleteVars, memVars, locVars, cfgVars>>

vars == <<orchVars, cacheVars, deleteVars, memVars, locVars, cfgVars>>

runVars == <<pc, orderCount, batchStart, currentBatch, createdOrders,
             batchPromises, finalStatus, errorMessage, response, caught>>

\* ------------------------------------------------------------- helpers
Min(a, b) == IF a < b THEN a ELSE b
Max(a, b) == IF a > b THEN a ELSE b

\* Math.floor in the place of Math.round
RoundPercentFloor(a, b) == (100 * a) \div b

\* the operands of the division exchanged: Math.round(b / a * 100)
RoundPercentSwapped(a, b) == (200 * b + a) \div (2 * a)

\* Math.round(a / b * 100) for integers a >= 0, b > 0: round half up
RoundPercent(a, b) == (200 * a + b) \div (2 * b)

\* JavaScript values an orderCount can carry in the request body: a number,
\* NaN, undefined (the field is missing) or a string given by its characters
JsNumber(n) == [type |-> "number", nan |-> FALSE, value |-> n]
JsNaN == [type |-> "number", nan |-> TRUE, value |-> 0]
JsUndefined == [type |-> "undefined"]
JsString(chars) == [type |-> "string", chars |-> chars]

Digits == {"0", "1", "2", "3", "4", "5", "6", "7", "8", "9"}
DigitValue(c) ==
  CASE c = "0" -> 0 [] c = "1" -> 1 [] c = "2" -> 2 [] c = "3" -> 3
    [] c = "4" -> 4 [] c = "5" -> 5 [] c = "6" -> 6 [] c = "7" -> 7
    [] c = "8" -> 8 [] c = "9" -> 9

RECURSIVE ParseDigits(_)
ParseDigits(chars) ==
  IF chars = <<>>
    THEN 0
    ELSE 10 * ParseDigits(SubSeq(chars, 1, Len(chars) - 1))
         + DigitValue(chars[Len(chars)])

\* Number(v): a number is itself, undefined is NaN, the empty string is 0,
\* a string of decimal digits is its value, any other string here is NaN
Number(v) ==
  CASE v.type = "number" -> v
    [] v.type = "undefined" -> JsNaN
    [] v.type = "string" ->
         IF \A k \in 1..Len(v.chars) : v.chars[k] \in Digits
           THEN JsNumber(ParseDigits(v.chars))
           ELSE JsNaN

\* the clamp without its upper limit: Math.max(Number(rawOrderCount) || 1, 1)
ClampOrderCountNoUpperLimit(raw) ==
  LET n == Number(raw)
      orOne == IF n.nan \/ n.value = 0 THEN 1 ELSE n.value
  IN Max(orOne, 1)

\* Math.min(Math.max(Number(rawOrderCount) || 1, 1), 30000)
ClampOrderCount(raw) ==
  LET n == Number(raw)
      orOne == IF n.nan \/ n.value = 0 THEN 1 ELSE n.value
  IN Min(Max(orOne, 1), MAX_ORDER_COUNT)

\* a success record carries no error field; a failure record has error: true
SuccessRecord(i) == [id |-> 1000 + i + 1]
\* the failure record with the 0-based loop index as orderIndex
FailureRecordZeroBased(i) ==
  [error |-> TRUE,
   message |-> "Failed to create order " \o ToString(i) \o ": Unknown error",
   orderIndex |-> i]

FailureRecord(i) ==
  [error |-> TRUE,
   message |-> "Failed to create order " \o ToString(i + 1) \o ": Unknown error",
   orderIndex |-> i + 1]

HasError(order) == "error" \in DOMAIN order /\ order.error

SelectSuccessful(orders) == SelectSeq(orders, LAMBDA o : ~HasError(o))

\* currentBatch && status === 'failed' && errorMessage === 'Cancelled by user'
IsCancelSentinel(row) ==
  row.status = "failed" /\ row.errorMessage = CANCELLED_MESSAGE

\* ------------------------------------ updateOrderLocationFromTags
\* location ids of getWarehouseNameFromId, and one it does not know
BBL == "96010764563"
BBH == "105521053971"
BBP == "101212520723"
LocationIds == {BBL, BBH, BBP, "1"}

NotCalled == [kind |-> "notCalled"]
NoResult == [kind |-> "none"]

\* updateOrderLocationFromTags has not been called
LocIdle ==
  /\ locationId = null
  /\ lineItems = 0
  /\ approachIdx = 0
  /\ approachStep = 0
  /\ requests = <<>>
  /\ locResult = NotCalled

\* ---------------------------------- DELETE /api/configurations/:id
\* ids of order_configurations and of order_batches rows
ConfigIds == {1, 2}
LinkBatchIds == {1, 2}

\* configurationId: null, as an id that no configuration has
nullId == 0

\* no row of that id was inserted yet
Unborn == [exists |-> FALSE, deleted |-> FALSE]
\* the row of that id was deleted
Gone == [exists |-> FALSE, deleted |-> TRUE]

\* both tables are empty and no deletion of a configuration was requested
CfgIdle ==
  /\ orderConfigurations = {}
  /\ orderBatches = [b \in LinkBatchIds |-> Unborn]
  /\ cfgId = 0
  /\ cfgPc = "idle"
  /\ linkedBatches = <<>>
  /\ unlinked = {}
  /\ cfgStatus = 0

\* ------------------------------------------------- DatabaseStorage
\* no row: what a SELECT returns, and what the table holds, when no row of
\* the batch id exists
NoRow == [status |-> null, progress |-> 0, errorMessage |-> null,
          createdOrders |-> <<>>, orderCount |-> 0]

\* UPDATE order_batches SET progress [, status] WHERE batch_id = batchId;
\* an UPDATE that matches no row changes nothing and does not throw
updateOrderBatchProgress(row, progress, status) ==
  IF row = NoRow THEN NoRow
  ELSE IF status # null
    THEN [row EXCEPT !.progress = progress, !.status = status]
    ELSE [row EXCEPT !.progress = progress]

\* UPDATE order_batches SET <updates> WHERE id = id
updateOrderBatch(row, updates) ==
  IF row = NoRow THEN NoRow
  ELSE [f \in DOMAIN row |->
          IF f \in DOMAIN updates THEN updates[f] ELSE row[f]]

\* status || (errorMessage ? "failed" : "completed"); errorMessage is only
\* part of the update when it is truthy
completeOrderBatch(row, orders, message, status) ==
  LET truthy == message # null /\ message # ""
      newStatus == IF status # null /\ status # ""
                     THEN status
                     ELSE IF truthy THEN "failed" ELSE "completed"
      base == [row EXCEPT !.status = newStatus,
                          !.progress = 100,
                          !.createdOrders = orders]
  IN IF row = NoRow THEN NoRow
     ELSE IF truthy THEN [base EXCEPT !.errorMessage = message] ELSE base

\* the classification without the partial status for a cancelled run
FinalStatusOfCancelAlwaysFailed(wasCancelled, orders, n) ==
  LET hasErrors == \E k \in 1..Len(orders) : HasError(orders[k])
      successful == Len(SelectSuccessful(orders))
  IN IF wasCancelled
       THEN [status |-> "failed", message |-> CANCELLED_MESSAGE]
       ELSE IF hasErrors /\ successful = 0
              THEN [status |-> "failed", message |-> "All orders failed to create"]
              ELSE IF hasErrors /\ successful < n
                     THEN [status |-> "partial",
                           message |-> ToString(successful) \o " of " \o ToString(n)
                                       \o " orders created successfully"]
                     ELSE [status |-> "completed", message |-> null]

\* the classification that reports any failure as a failed batch
FinalStatusOfErrorsAlwaysFailed(wasCancelled, orders, n) ==
  LET hasErrors == \E k \in 1..Len(orders) : HasError(orders[k])
      successful == Len(SelectSuccessful(orders))
  IN IF wasCancelled
       THEN IF successful = 0
              THEN [status |-> "failed", message |-> CANCELLED_MESSAGE]
              ELSE [status |-> "partial",
                    message |-> "Cancelled by user - " \o ToString(successful)
                                \o " of " \o ToString(n) \o " orders created"]
       ELSE IF hasErrors
              THEN [status |-> "failed", message |-> "All orders failed to create"]
              ELSE [status |-> "completed", message |-> null]

\* ------------------------------------------------- final status (routes)
FinalStatusOf(wasCancelled, orders, n) ==
  LET hasErrors == \E k \in 1..Len(orders) : HasError(orders[k])
      successful == Len(SelectSuccessful(orders))
  IN IF wasCancelled
       THEN IF successful = 0
              THEN [status |-> "failed", message |-> CANCELLED_MESSAGE]
              ELSE [status |-> "partial",
                    message |-> "Cancelled by user - " \o ToString(successful)
                                \o " of " \o ToString(n) \o " orders created"]
       ELSE IF hasErrors /\ successful = 0
              THEN [status |-> "failed", message |-> "All orders failed to create"]
              ELSE IF hasErrors /\ successful < n
                     THEN [status |-> "partial",
                           message |-> ToString(successful) \o " of " \o ToString(n)
                                       \o " orders created successfully"]
                     ELSE [status |-> "completed", message |-> null]

NoResponse == [sent |-> FALSE]
\* the row POST /api/batches inserts: status pending, progress 0 by default
PendingRow(count) ==
  [status |-> "pending", progress |-> 0, errorMessage |-> null,
   createdOrders |-> <<>>, orderCount |-> count]
\* messages of the errors a storage call or the template build throws
ErrorMessages == {"", "storage unavailable"}
Pending == [pending |-> TRUE]

\* ------------------------------------------------------------- Init
\* a pending batch row of the given orderCount and a create request whose
\* configuration carries the given raw orderCount
RunInitRow(raw, row) ==
  /\ rawOrderCount = raw
  /\ batch = row
  /\ pc = "start"
  /\ orderCount = 0
  /\ batchStart = 0
  /\ currentBatch = NoRow
  /\ createdOrders = <<>>
  /\ batchPromises = <<>>
  /\ finalStatus = null
  /\ errorMessage = null
  /\ response = NoResponse
  /\ cancelPc = "idle"
  /\ cancelCount = 0
  /\ cancelWritten = FALSE
  /\ cancelDuringRun = FALSE
  /\ thrown = {}
  /\ issuedAfterCancel = 0
  /\ stoppedByCancel = FALSE
  /\ progressLog = <<>>
  /\ caught = null
  /\ attempted = 0
  /\ waveLog = <<>>
  /\ finalizations = 0
  /\ settledOutOfOrder = FALSE
  /\ memBatch = NoRow
  /\ LocIdle
  /\ CfgIdle

\* the row as POST /api/batches inserted it
RunInit(raw, count) == RunInitRow(raw, PendingRow(count))

\* the shop's SKUs a configuration can name, and the requests that build a
\* template at the same time
Skus == {"SKU-A", "SKU-B"}

Callers == 1..MaxCallers

\* no template is being built: productCache is the empty Map of the module
CacheIdle ==
  /\ productCache = [sku \in {} |-> null]
  /\ tplConfig = [c \in Callers |-> <<>>]
  /\ tplPc = [c \in Callers |-> "idle"]
  /\ tplLineItems = [c \in Callers |-> <<>>]
  /\ tplOutcome = [c \in Callers |-> <<>>]

BatchIds == {1, 2}

NoBatch == [exists |-> FALSE, createdOrders |-> <<>>]

\* no deletion was requested
DeleteIdle ==
  /\ rows = [id \in BatchIds |-> NoBatch]
  /\ remote = {}
  /\ delIds = <<>>
  /\ deleteFromShopify = FALSE
  /\ clientPc = "done"
  /\ clientIdx = 0
  /\ succeeded = 0
  /\ failed = 0
  /\ handlerPc = "idle"
  /\ handlerBatch = NoBatch
  /\ subStart = 0
  /\ deletePromises = <<>>
  /\ shopifyDeletionResults = [deletedCount |-> 0, failedCount |-> 0]
  /\ httpStatus = 0
  /\ deleted = "unset"
  /\ attempts = <<>>

InitWith(raw, count) == RunInit(raw, count) /\ CacheIdle /\ DeleteIdle

\* the client posts the batch with the configuration's orderCount
Init == \E n \in 1..MaxOrderCount : InitWith(JsNumber(n), n)

\* ------------------------------------------- POST /api/orders/create
\* const batch = await storage.getOrderBatchByBatchId(batchId); clamp count
RunStart ==
  /\ pc = "start"
  /\ orderCount' = ClampOrderCount(rawOrderCount)
  /\ pc' = "toProcessing"
  /\ UNCHANGED <<batch, rawOrderCount, batchStart, currentBatch, createdOrders,
                 batchPromises, finalStatus, errorMessage, response, cancelPc,
                 cancelCount, cancelWritten, cancelDuringRun, thrown,
                 issuedAfterCancel, stoppedByCancel, progressLog, caught,
                 attempted, waveLog>>
  /\ UNCHANGED finalizations
  /\ UNCHANGED settledOutOfOrder
  /\ UNCHANGED auxVars

\* await storage.updateOrderBatchProgress(batchId, 0, "processing")
RunToProcessing ==
  /\ pc = "toProcessing"
  /\ batch' = updateOrderBatchProgress(batch, 0, "processing")
  /\ progressLog' = Append(progressLog, 0)
  /\ pc' = "template"
  /\ UNCHANGED <<rawOrderCount, orderCount, batchStart, currentBatch,
                 createdOrders, batchPromises, finalStatus, errorMessage,
                 response, cancelPc, cancelCount, cancelWritten,
                 cancelDuringRun, thrown, issuedAfterCancel, stoppedByCancel,
                 caught, attempted, waveLog>>
  /\ UNCHANGED finalizations
  /\ UNCHANGED settledOutOfOrder
  /\ UNCHANGED auxVars

\* const orderTemplate = await createShopifyOrderFromConfig(orderConfig);
\* createdOrders = []; the wave loop starts at batchStart = 0
RunTemplate ==
  /\ pc = "template"
  /\ createdOrders' = <<>>
  /\ batchStart' = 0
  /\ pc' = "check"
  /\ UNCHANGED <<batch, rawOrderCount, orderCount, currentBatch, batchPromises,
                 finalStatus, errorMessage, response, cancelPc, cancelCount,
                 cancelWritten, cancelDuringRun, thrown, issuedAfterCancel,
                 stoppedByCancel, progressLog, caught, attempted, waveLog>>
  /\ UNCHANGED finalizations
  /\ UNCHANGED settledOutOfOrder
  /\ UNCHANGED auxVars

\* const currentBatch = await storage.getOrderBatchByBatchId(batchId)
RunCheck ==
  /\ pc = "check"
  /\ currentBatch' = batch
  /\ pc' = "issue"
  /\ UNCHANGED <<batch, rawOrderCount, orderCount, batchStart, createdOrders,
                 batchPromises, finalStatus, errorMessage, response, cancelPc,
                 cancelCount, cancelWritten, cancelDuringRun, thrown,
                 issuedAfterCancel, stoppedByCancel, progressLog, caught,
                 attempted, waveLog>>
  /\ UNCHANGED finalizations
  /\ UNCHANGED settledOutOfOrder
  /\ UNCHANGED auxVars

\* the end of the wave without the clamp to orderCount
BatchEndUnclamped == batchStart + BATCH_SIZE

BatchEnd == Min(batchStart + BATCH_SIZE, orderCount)

\* a break that throws away the results gathered so far
RunBreakDropsResults ==
  /\ pc = "issue"
  /\ IsCancelSentinel(currentBatch)
  /\ stoppedByCancel' = TRUE
  /\ pc' = "finalRead"
  /\ createdOrders' = <<>>
  /\ UNCHANGED <<batch, rawOrderCount, orderCount, batchStart, currentBatch,
                 batchPromises, finalStatus, errorMessage,
                 response, cancelPc, cancelCount, cancelWritten,
                 cancelDuringRun, thrown, issuedAfterCancel, progressLog,
                 caught, attempted, waveLog>>
  /\ UNCHANGED finalizations
  /\ UNCHANGED settledOutOfOrder
  /\ UNCHANGED auxVars

\* the sentinel was read: break out of the wave loop
RunBreak ==
  /\ pc = "issue"
  /\ IsCancelSentinel(currentBatch)
  /\ stoppedByCancel' = TRUE
  /\ pc' = "finalRead"
  /\ UNCHANGED <<batch, rawOrderCount, orderCount, batchStart, currentBatch,
                 createdOrders, batchPromises, finalStatus, errorMessage,
                 response, cancelPc, cancelCount, cancelWritten,
                 cancelDuringRun, thrown, issuedAfterCancel, progressLog,
                 caught, attempted, waveLog>>
  /\ UNCHANGED finalizations
  /\ UNCHANGED settledOutOfOrder
  /\ UNCHANGED auxVars

\* otherwise every createOrder call of the wave is issued
RunIssue ==
  /\ pc = "issue"
  /\ ~IsCancelSentinel(currentBatch)
  /\ batchPromises' = [i \in batchStart..(BatchEnd - 1) |-> Pending]
  /\ issuedAfterCancel' = IF cancelDuringRun
                            THEN issuedAfterCancel + (BatchEnd - batchStart)
                            ELSE issuedAfterCancel
  /\ attempted' = attempted + (BatchEnd - batchStart)
  /\ waveLog' = Append(waveLog, [from |-> batchStart, to |-> BatchEnd])
  /\ pc' = "await"
  /\ UNCHANGED <<batch, rawOrderCount, orderCount, batchStart, currentBatch,
                 createdOrders, finalStatus, errorMessage, response, cancelPc,
                 cancelCount, cancelWritten, cancelDuringRun, thrown,
                 stoppedByCancel, progressLog, caught>>
  /\ UNCHANGED finalizations
  /\ settledOutOfOrder' = FALSE
  /\ UNCHANGED auxVars

FailureCount ==
  Cardinality({k \in 1..Len(createdOrders) : HasError(createdOrders[k])})
  + Cardinality({i \in DOMAIN batchPromises : HasError(batchPromises[i])})

\* shopifyAPI.createOrder resolves for order i: the success record
CreateOrderFulfilled(i) ==
  /\ pc = "await"
  /\ i \in DOMAIN batchPromises
  /\ batchPromises[i] = Pending
  /\ batchPromises' = [batchPromises EXCEPT ![i] = SuccessRecord(i)]
  /\ UNCHANGED <<batch, rawOrderCount, pc, orderCount, batchStart,
                 currentBatch, createdOrders, finalStatus, errorMessage,
                 response, cancelPc, cancelCount, cancelWritten,
                 cancelDuringRun, thrown, issuedAfterCancel, stoppedByCancel,
                 progressLog, caught, attempted, waveLog>>
  /\ UNCHANGED finalizations
  /\ settledOutOfOrder' =
       \/ settledOutOfOrder
       \/ \E j \in DOMAIN batchPromises :
            j < i /\ batchPromises[j] = Pending
  /\ UNCHANGED auxVars

\* shopifyAPI.createOrder throws for order i: caught, the failure record
CreateOrderRejected(i) ==
  /\ pc = "await"
  /\ i \in DOMAIN batchPromises
  /\ batchPromises[i] = Pending
  /\ FailureCount < MaxFailures
  /\ batchPromises' = [batchPromises EXCEPT ![i] = FailureRecord(i)]
  /\ thrown' = thrown \cup {i}
  /\ UNCHANGED <<batch, rawOrderCount, pc, orderCount, batchStart,
                 currentBatch, createdOrders, finalStatus, errorMessage,
                 response, cancelPc, cancelCount, cancelWritten,
                 cancelDuringRun, issuedAfterCancel, stoppedByCancel,
                 progressLog, caught, attempted, waveLog>>
  /\ UNCHANGED finalizations
  /\ settledOutOfOrder' =
       \/ settledOutOfOrder
       \/ \E j \in DOMAIN batchPromises :
            j < i /\ batchPromises[j] = Pending
  /\ UNCHANGED auxVars

\* the settled values, last pushed promise first
BatchResultsReversed ==
  [k \in 1..(BatchEnd - batchStart) |-> batchPromises[BatchEnd - k]]

\* Promise.all result: the settled values in the order the promises were pushed
BatchResults ==
  [k \in 1..(BatchEnd - batchStart) |-> batchPromises[batchStart + k - 1]]

\* Promise.any in the place of Promise.all: one settled promise is enough
AnySettled ==
  \E i \in DOMAIN batchPromises : batchPromises[i] # Pending

\* Promise.all(batchPromises) resolves once every promise has settled
AllSettled ==
  \A i \in DOMAIN batchPromises : batchPromises[i] # Pending

\* const batchResults = await Promise.all(batchPromises);
\* createdOrders.push(...batchResults);
\* await storage.updateOrderBatchProgress(batchId, progress); batchStart += 10
RunWaveDone ==
  /\ pc = "await"
  /\ AllSettled
  /\ createdOrders' = createdOrders \o BatchResults
  /\ LET progress == RoundPercent(BatchEnd, orderCount)
     IN /\ batch' = updateOrderBatchProgress(batch, progress, null)
        /\ progressLog' = Append(progressLog, progress)
  /\ batchPromises' = <<>>
  /\ batchStart' = batchStart + BATCH_SIZE
  /\ pc' = IF batchStart + BATCH_SIZE < orderCount THEN "check" ELSE "finalRead"
  /\ UNCHANGED <<rawOrderCount, orderCount, currentBatch, finalStatus,
                 errorMessage, response, cancelPc, cancelCount, cancelWritten,
                 cancelDuringRun, thrown, issuedAfterCancel, stoppedByCancel,
                 caught, attempted, waveLog>>
  /\ UNCHANGED finalizations
  /\ UNCHANGED settledOutOfOrder
  /\ UNCHANGED auxVars

\* const currentBatch = await storage.getOrderBatchByBatchId(batchId);
\* wasCancelled, hasErrors, successfulOrders, finalStatus, errorMessage
RunFinalRead ==
  /\ pc = "finalRead"
  /\ currentBatch' = batch
  /\ LET final == FinalStatusOf(IsCancelSentinel(batch), createdOrders, orderCount)
     IN /\ finalStatus' = final.status
        /\ errorMessage' = final.message
  /\ pc' = "complete"
  /\ UNCHANGED <<batch, rawOrderCount, orderCount, batchStart, createdOrders,
                 batchPromises, response, cancelPc, cancelCount, cancelWritten,
                 cancelDuringRun, thrown, issuedAfterCancel, stoppedByCancel,
                 progressLog, caught, attempted, waveLog>>
  /\ UNCHANGED finalizations
  /\ UNCHANGED settledOutOfOrder
  /\ UNCHANGED auxVars

\* await storage.completeOrderBatch(batchId, createdOrders, errorMessage, finalStatus)
RunComplete ==
  /\ pc = "complete"
  /\ batch' = completeOrderBatch(batch, createdOrders, errorMessage, finalStatus)
  /\ progressLog' = Append(progressLog, 100)
  /\ pc' = "respond"
  /\ UNCHANGED <<rawOrderCount, orderCount, batchStart, currentBatch,
                 createdOrders, batchPromises, finalStatus, errorMessage,
                 response, cancelPc, cancelCount, cancelWritten,
                 cancelDuringRun, thrown, issuedAfterCancel, stoppedByCancel,
                 caught, attempted, waveLog>>
  /\ finalizations' = finalizations + 1
  /\ UNCHANGED settledOutOfOrder
  /\ UNCHANGED auxVars

\* const finalBatch = await storage.getOrderBatchByBatchId(batchId); res.json
RunRespond ==
  /\ pc = "respond"
  /\ LET finalWasCancelled == IsCancelSentinel(batch)
         hasErrors == \E k \in 1..Len(createdOrders) : HasError(createdOrders[k])
     IN response' = [sent |-> TRUE,
                     success |-> ~finalWasCancelled,
                     ordersCreated |-> Len(SelectSuccessful(createdOrders)),
                     orders |-> createdOrders,
                     hasErrors |-> (hasErrors \/ finalWasCancelled),
                     cancelled |-> finalWasCancelled]
  /\ pc' = "done"
  /\ UNCHANGED <<batch, rawOrderCount, orderCount, batchStart, currentBatch,
                 createdOrders, batchPromises, finalStatus, errorMessage,
                 cancelPc, cancelCount, cancelWritten, cancelDuringRun, thrown,
                 issuedAfterCancel, stoppedByCancel, progressLog, caught,
                 attempted, waveLog>>
  /\ UNCHANGED finalizations
  /\ UNCHANGED settledOutOfOrder
  /\ UNCHANGED auxVars

\* awaits of the try block whose storage call or template build can throw
ThrowPoints ==
  {"start", "toProcessing", "template", "check", "finalRead", "complete",
   "respond"}

\* a storage call (or createShopifyOrderFromConfig) throws: control moves to
\* the catch block with the error
RunThrows(msg) ==
  /\ pc \in ThrowPoints
  /\ caught' = msg
  /\ pc' = "catch"
  /\ UNCHANGED <<batch, rawOrderCount, orderCount, batchStart, currentBatch,
                 createdOrders, batchPromises, finalStatus, errorMessage,
                 response, cancelPc, cancelCount, cancelWritten,
                 cancelDuringRun, thrown, issuedAfterCancel, stoppedByCancel,
                 progressLog, attempted, waveLog>>
  /\ UNCHANGED finalizations
  /\ UNCHANGED settledOutOfOrder
  /\ UNCHANGED auxVars

\* the wave has settled and its results are pushed, then
\* updateOrderBatchProgress throws
RunProgressThrows(msg) ==
  /\ pc = "await"
  /\ AllSettled
  /\ createdOrders' = createdOrders \o BatchResults
  /\ batchPromises' = <<>>
  /\ caught' = msg
  /\ pc' = "catch"
  /\ UNCHANGED <<batch, rawOrderCount, orderCount, batchStart, currentBatch,
                 finalStatus, errorMessage, response, cancelPc, cancelCount,
                 cancelWritten, cancelDuringRun, thrown, issuedAfterCancel,
                 stoppedByCancel, progressLog, attempted, waveLog>>
  /\ UNCHANGED finalizations
  /\ UNCHANGED settledOutOfOrder
  /\ UNCHANGED auxVars

\* catch: await storage.completeOrderBatch(req.body.batchId, [], message);
\* res.status(500).json({error: "Failed to create orders", details: message})
RunCatch ==
  /\ pc = "catch"
  /\ batch' = completeOrderBatch(batch, <<>>, caught, null)
  /\ progressLog' = Append(progressLog, 100)
  /\ response' = [sent |-> TRUE, httpStatus |-> 500,
                  error |-> "Failed to create orders", details |-> caught]
  /\ pc' = "failed"
  /\ UNCHANGED <<rawOrderCount, orderCount, batchStart, currentBatch,
                 createdOrders, batchPromises, finalStatus, errorMessage,
                 caught, cancelPc, cancelCount, cancelWritten, cancelDuringRun,
                 thrown, issuedAfterCancel, stoppedByCancel, attempted,
                 waveLog>>
  /\ finalizations' = finalizations + 1
  /\ UNCHANGED settledOutOfOrder
  /\ UNCHANGED auxVars

\* ------------------------------------------- POST /api/orders/cancel
\* the create handler has been entered and has not yet finalized the batch
RunInProgress == pc \notin {"start", "respond", "done", "failed"}

\* const batch = await storage.getOrderBatchByBatchId(batchId)
CancelRead ==
  /\ cancelPc = "idle"
  /\ cancelCount < MaxCancels
  /\ cancelCount' = cancelCount + 1
  /\ cancelPc' = "write"
  /\ UNCHANGED <<batch, rawOrderCount, cancelWritten, cancelDuringRun, thrown,
                 issuedAfterCancel, stoppedByCancel, progressLog, attempted,
                 waveLog>>
  /\ UNCHANGED runVars
  /\ UNCHANGED finalizations
  /\ UNCHANGED settledOutOfOrder
  /\ UNCHANGED auxVars

\* await storage.updateOrderBatch(batch.id, {status: 'failed', errorMessage: ...})
CancelWrite ==
  /\ cancelPc = "write"
  /\ batch' = updateOrderBatch(batch, [status |-> "failed",
                                       errorMessage |-> CANCELLED_MESSAGE])
  /\ cancelWritten' = TRUE
  /\ cancelDuringRun' = (cancelDuringRun \/ RunInProgress)
  /\ cancelPc' = "idle"
  /\ UNCHANGED <<rawOrderCount, cancelCount, thrown, issuedAfterCancel,
                 stoppedByCancel, progressLog, attempted, waveLog>>
  /\ UNCHANGED runVars
  /\ UNCHANGED finalizations
  /\ UNCHANGED settledOutOfOrder
  /\ UNCHANGED auxVars

Run ==
  \/ RunStart \/ RunToProcessing \/ RunTemplate \/ RunCheck \/ RunBreak
  \/ RunIssue \/ RunWaveDone \/ RunFinalRead \/ RunComplete \/ RunRespond
  \/ RunCatch

Next ==
  \/ Run
  \/ \E i \in 0..(MaxOrderCount + BATCH_SIZE) : CreateOrderFulfilled(i)
  \/ \E i \in 0..(MaxOrderCount + BATCH_SIZE) : CreateOrderRejected(i)
  \/ \E msg \in ErrorMessages : RunThrows(msg)
  \/ \E msg \in ErrorMessages : RunProgressThrows(msg)
  \/ CancelRead
  \/ CancelWrite

Spec == Init /\ [][Next]_vars

\* ------------------------------------------------------------------
\* The same handlers for a batch row and a configuration whose order
\* counts differ: POST /api/batches and POST /api/orders/create validate
\* them independently.
\* ------------------------------------------------------------------
InitBatches ==
  \E n \in 1..MaxBatchOrderCount, m \in 1..MaxBatchOrderCount :
     InitWith(JsNumber(n), m)

SpecBatches == InitBatches /\ [][Next]_vars

\* ------------------------------------------------------------------
\* The wave loop for every kind of raw orderCount, up to the limit of
\* 30000 orders.  The calls of a wave are issued and awaited in one step
\* and only counted: no cancel request, no result list.
\* ------------------------------------------------------------------
RawOrderCounts ==
  {JsUndefined, JsNaN, JsString(<<"a", "b", "c">>), JsString(<<>>),
   JsString(<<"2", "5">>), JsNumber(0), JsNumber(-3), JsNumber(1),
   JsNumber(10), JsNumber(25), JsNumber(MAX_ORDER_COUNT)}
  \cup {JsNumber(MAX_ORDER_COUNT + k) : k \in 1..MaxExcess}

InitWaves == \E raw \in RawOrderCounts : InitWith(raw, 1)

\* for (i = batchStart; i < batchEnd; i++) createOrder; Promise.all;
\* updateOrderBatchProgress(batchId, progress); batchStart += BATCH_SIZE
RunWaveCounted ==
  /\ pc = "issue"
  /\ ~IsCancelSentinel(currentBatch)
  /\ attempted' = attempted + Cardinality(batchStart..(BatchEnd - 1))
  /\ waveLog' = Append(waveLog, [from |-> batchStart, to |-> BatchEnd])
  /\ LET progress == RoundPercent(BatchEnd, orderCount)
     IN /\ batch' = updateOrderBatchProgress(batch, progress, null)
        /\ progressLog' = Append(progressLog, progress)
  /\ batchStart' = batchStart + BATCH_SIZE
  /\ pc' = IF batchStart + BATCH_SIZE < orderCount THEN "check" ELSE "finalRead"
  /\ UNCHANGED <<rawOrderCount, orderCount, currentBatch, createdOrders,
                 batchPromises, finalStatus, errorMessage, response, caught,
                 cancelPc, cancelCount, cancelWritten, cancelDuringRun, thrown,
                 issuedAfterCancel, stoppedByCancel>>
  /\ UNCHANGED finalizations
  /\ UNCHANGED settledOutOfOrder
  /\ UNCHANGED auxVars

NextWaves ==
  \/ RunStart \/ RunToProcessing \/ RunTemplate \/ RunCheck \/ RunWaveCounted

SpecWaves == InitWaves /\ [][NextWaves]_vars

\* =================================================================
\* Properties
\* =================================================================
Terminal == {"completed", "failed", "partial"}

Finalized == pc \in {"respond", "done"}

ErrorEntries(orders) == {k \in 1..Len(orders) : HasError(orders[k])}

\* C1: in every reachable state of the batch row, a terminal status
\* (completed, failed, partial) comes with progress = 100 - also while a run
\* is in flight and after a cancel request has written its sentinel.
C1_TerminalImpliesProgress100 ==
  batch.status \in Terminal => batch.progress = 100

\* C2: once the run has finalized the batch (completeOrderBatch has written),
\* no later step - in particular no cancel request - changes the row's
\* status, errorMessage, progress or createdOrders.
C2_FinalizedRowIsFrozen ==
  [][Finalized => batch' = batch]_vars

\* C3: the progress values the run persists (0 at the transition to
\* processing, one per wave, 100 at finalization) are integers in 0..100 and
\* never decrease, and the row's progress is the last value persisted.
C3_ProgressNonDecreasing ==
  /\ \A k \in 1..Len(progressLog) :
       /\ progressLog[k] \in 0..100
       /\ k > 1 => progressLog[k - 1] <= progressLog[k]
  /\ Len(progressLog) > 0 => batch.progress = progressLog[Len(progressLog)]
  /\ pc \notin {"start", "toProcessing", "catch", "failed"} => progressLog[1] = 0
  /\ Finalized => progressLog[Len(progressLog)] = 100

\* a two-wave run has answered: 0, the first wave's value, 100, 100
C3_Witness ==
  /\ pc = "done"
  /\ Len(progressLog) = 4
  /\ progressLog[2] > 0
  /\ progressLog[2] < 100

\* C4: a run in which every createOrder call succeeded and no cancel request
\* was made ends with status completed, progress 100 and exactly orderCount
\* success records (no failure record) in createdOrders.
C4_AllSucceedCompletes ==
  (pc = "done" /\ cancelCount = 0 /\ thrown = {}) =>
     /\ batch.status = "completed"
     /\ batch.progress = 100
     /\ Len(batch.createdOrders) = orderCount
     /\ ErrorEntries(batch.createdOrders) = {}
     /\ response.ordersCreated = orderCount

C4_Witness ==
  /\ pc = "done"
  /\ cancelCount = 0
  /\ thrown = {}
  /\ orderCount > BATCH_SIZE
  /\ batch.status = "completed"

\* C5: a createOrder call that throws for order i becomes exactly one failure
\* record {error: true, message, orderIndex: i} (1-based) and stops no other
\* order: every order of the wave in flight is issued and settles on its own,
\* a run that was not stopped by a cancel request has one entry per order,
\* the error entries are exactly the orders that threw; 10 orders of which
\* only order 7 fails end partial, '9 of 10 orders created successfully',
\* with one error entry whose orderIndex is 7.
C5_FailureIsolated ==
  /\ \A i \in DOMAIN batchPromises :
       i \in thrown <=> batchPromises[i] = FailureRecord(i)
  /\ pc = "await" => DOMAIN batchPromises = batchStart..(BatchEnd - 1)
  /\ \A k \in 1..Len(createdOrders) :
       IF (k - 1) \in thrown
         THEN /\ HasError(createdOrders[k])
              /\ createdOrders[k].orderIndex = k
         ELSE ~HasError(createdOrders[k])
  /\ (Finalized /\ ~stoppedByCancel) => Len(createdOrders) = orderCount
  /\ (pc = "done" /\ orderCount = 10 /\ thrown = {6} /\ cancelCount = 0) =>
       /\ batch.status = "partial"
       /\ batch.errorMessage = "9 of 10 orders created successfully"
       /\ ErrorEntries(batch.createdOrders) = {7}
       /\ batch.createdOrders[7].orderIndex = 7
       /\ batch.createdOrders[7].error = TRUE

C5_Witness ==
  /\ pc = "done"
  /\ orderCount = 10
  /\ thrown = {6}
  /\ cancelCount = 0
  /\ batch.status = "partial"

\* C6: a cancel request's write (status failed, errorMessage 'Cancelled by
\* user') made while the run is in progress is never overwritten by one of the
\* run's updateOrderBatchProgress calls, the initial transition to processing
\* included: the row read by the run's next cancellation check carries it.
C6_SentinelSurvivesProgressUpdates ==
  [][(pc = "check" /\ pc' = "issue" /\ cancelDuringRun)
       => IsCancelSentinel(currentBatch')]_vars

\* C7: if a cancel request is written while the run is in progress, at most
\* W = 10 createOrder calls are issued after that write and no further wave
\* is started.
C7_AtMostOneWaveAfterCancel ==
  issuedAfterCancel <= BATCH_SIZE

\* C8: a run that stopped because its cancellation check read the sentinel
\* finalizes the batch as partial with 'Cancelled by user - X of N orders
\* created' when X >= 1 orders succeeded, and as failed with 'Cancelled by
\* user' when none did.
C8_CancelledRunFinalStatus ==
  [][(pc = "complete" /\ pc' = "respond" /\ stoppedByCancel) =>
       LET X == Len(createdOrders) - Cardinality(ErrorEntries(createdOrders))
       IN IF X >= 1
            THEN /\ batch'.status = "partial"
                 /\ batch'.errorMessage =
                      "Cancelled by user - " \o ToString(X) \o " of "
                      \o ToString(orderCount) \o " orders created"
                 /\ batch'.createdOrders = createdOrders
            ELSE /\ batch'.status = "failed"
                 /\ batch'.errorMessage = "Cancelled by user"]_vars

\* a cancelled run with created orders has been finalized as partial
C8_Witness ==
  /\ Finalized
  /\ stoppedByCancel
  /\ Len(createdOrders) = BATCH_SIZE
  /\ batch.status = "partial"

\* the truth table of the final status, as a function of the requested
\* count n, the number x of orders created and whether the run was cancelled
C9_Table(n, x, cancelled) ==
  CASE cancelled /\ x = 0 ->
         [status |-> "failed", message |-> "Cancelled by user"]
    [] cancelled /\ x > 0 ->
         [status |-> "partial",
          message |-> "Cancelled by user - " \o ToString(x) \o " of "
                      \o ToString(n) \o " orders created"]
    [] ~cancelled /\ x = n ->
         [status |-> "completed", message |-> null]
    [] ~cancelled /\ x = 0 ->
         [status |-> "failed", message |-> "All orders failed to create"]
    [] ~cancelled /\ x > 0 /\ x < n ->
         [status |-> "partial",
          message |-> ToString(x) \o " of " \o ToString(n)
                      \o " orders created successfully"]

\* C9: the final status and message the run computes equal the truth table
\* for the requested count N, the number X of orders created (0 <= X <= N)
\* and whether the final read found the batch cancelled; the status is one of
\* completed, failed, partial.
C9_FinalStatusMatchesTable ==
  pc = "complete" =>
    LET X == Len(createdOrders) - Cardinality(ErrorEntries(createdOrders))
    IN /\ X \in 0..orderCount
       /\ finalStatus \in Terminal
       /\ [status |-> finalStatus, message |-> errorMessage]
            = C9_Table(orderCount, X, IsCancelSentinel(currentBatch))

\* every order of an uncancelled run failed
C9_Witness ==
  /\ pc = "complete"
  /\ ~IsCancelSentinel(currentBatch)
  /\ Len(createdOrders) = orderCount
  /\ thrown = {0}
  /\ finalStatus = "failed"

\* C10: the summary answered by the run has cancelled = true exactly when the
\* run was stopped by a cancel request, whether or not an order had been
\* created before the stop.
C10_SummaryCancelledIffStopped ==
  pc = "done" => (response.cancelled <=> stoppedByCancel)

\* C11: when an orchestrator-level error is caught (a storage call or the
\* template build threw), the catch block leaves the batch failed with
\* errorMessage equal to the exception's message, whatever the message, and
\* the request is answered with an error.
C11_CaughtErrorMarksBatchFailed ==
  [][(pc = "catch" /\ pc' = "failed") =>
       /\ batch'.status = "failed"
       /\ batch'.errorMessage = caught
       /\ response'.httpStatus = 500]_vars

\* C12: in every reachable state the number of entries of the row's
\* createdOrders is at most the row's own orderCount, for every batch and
\* configuration the API accepts.
C12_CreatedOrdersWithinBatchCount ==
  Len(batch.createdOrders) <= batch.orderCount

\* an orderCount that is already an integer in 1..30000
InRange(raw) ==
  raw.type = "number" /\ ~raw.nan /\ raw.value \in 1..MAX_ORDER_COUNT

\* C13: whatever orderCount the configuration carries (missing, zero,
\* negative, non-numeric, above 30000), the clamped count and the number of
\* createOrder calls of the completed wave loop are an integer in 1..30000,
\* equal to the supplied value when that is already an integer in range.
C13_AttemptedCountClamped ==
  /\ pc # "start" =>
       /\ orderCount \in 1..MAX_ORDER_COUNT
       /\ InRange(rawOrderCount) => orderCount = rawOrderCount.value
  /\ pc = "finalRead" => attempted = orderCount

\* a count out of range has been raised to one call, and the loop is over
C13_Witness ==
  /\ pc = "finalRead"
  /\ ~InRange(rawOrderCount)
  /\ rawOrderCount.type = "number"
  /\ attempted = 1

\* C19: no createOrder call of a wave is issued before every call of the
\* waves before it has settled: while a wave is in flight, and at the moment
\* it is issued, the result list holds the settled outcome (success or
\* failure record) of every earlier order and no earlier call is pending.
C19_WaveBarrier ==
  pc \in {"issue", "await"} =>
    /\ Len(createdOrders) = batchStart
    /\ \A k \in 1..Len(createdOrders) :
         createdOrders[k] \in {SuccessRecord(k - 1), FailureRecord(k - 1)}
    /\ pc = "issue" => batchPromises = <<>>
    /\ pc = "await" => DOMAIN batchPromises = batchStart..(BatchEnd - 1)

\* the second wave is in flight after a first wave with a failure in it
C19_Witness ==
  /\ pc = "await"
  /\ batchStart = BATCH_SIZE
  /\ thrown # {}
  /\ \E i \in DOMAIN batchPromises : batchPromises[i] = Pending

\* C20: a run of N orders without cancellation issues ceil(N / 10) waves;
\* wave k covers exactly the indices 10(k-1)+1 .. min(10k, N), so every wave
\* but the last has 10 orders, the last has the remainder and each index
\* 1..N is issued once; N = 25 gives waves of 10, 10 and 5.
C20_WavePartition ==
  /\ \A k \in 1..Len(waveLog) :
       /\ waveLog[k].from = BATCH_SIZE * (k - 1)
       /\ waveLog[k].to = Min(BATCH_SIZE * k, orderCount)
       /\ k < Len(waveLog) => waveLog[k].to - waveLog[k].from = BATCH_SIZE
  /\ pc = "finalRead" =>
       /\ Len(waveLog) = (orderCount + BATCH_SIZE - 1) \div BATCH_SIZE
       /\ waveLog[Len(waveLog)].to = orderCount
       /\ attempted = orderCount
  /\ (pc = "finalRead" /\ orderCount = 25) =>
       [k \in 1..Len(waveLog) |-> waveLog[k].to - waveLog[k].from]
         = <<10, 10, 5>>

C20_Witness ==
  /\ pc = "finalRead"
  /\ orderCount = 25
  /\ Len(waveLog) = 3

\* =================================================================
\* createShopifyOrderFromConfig and the module-level productCache
\* =================================================================
FulfillmentService == "manual"

SkuIndex(sku) == IF sku = "SKU-A" THEN 1 ELSE 2

\* prices a variant can carry when the catalogue is read
Prices == {"9.99", "12.50"}

\* what searchProductBySku returns for a variant it finds (the fields used)
ProductData(sku, price) ==
  [variant_id |-> 2000 + SkuIndex(sku), product_id |-> 3000 + SkuIndex(sku),
   title |-> "Title " \o sku, price |-> price]

Item(sku, quantity) == [productId |-> sku, quantity |-> quantity]

\* config.lineItems of the configurations submitted here
Configs ==
  {<<Item("SKU-A", 1)>>,
   <<Item("SKU-A", 1), Item("SKU-B", 2)>>,
   <<Item("SKU-B", 1), Item("SKU-A", 3)>>,
   <<Item("SKU-A", 2), Item("SKU-A", 1)>>}

\* line item of a product found in the cache or by the lookup
LineItem(data, item) ==
  [variant_id |-> data.variant_id, product_id |-> data.product_id,
   title |-> data.title, quantity |-> item.quantity, price |-> data.price,
   sku |-> item.productId, fulfillment_service |-> FulfillmentService]

FallbackLineItemSkuless(item) ==
  [title |-> "Product " \o item.productId, quantity |-> item.quantity,
   price |-> "0.00", fulfillment_service |-> FulfillmentService]

\* line item of a SKU whose lookup returned null or threw
FallbackLineItem(item) ==
  [title |-> "Product " \o item.productId, quantity |-> item.quantity,
   price |-> "0.00", sku |-> item.productId,
   fulfillment_service |-> FulfillmentService]

\* productCache.set(sku, data)
CacheSet(cache, sku, data) ==
  [k \in DOMAIN cache \cup {sku} |-> IF k = sku THEN data ELSE cache[k]]

\* the loop over config.lineItems while productCache.has(item.productId):
\* each hit pushes the cached line item and continues without an await
RECURSIVE ResolveCached(_, _, _)
ResolveCached(items, built, cache) ==
  IF Len(built) < Len(items)
       /\ items[Len(built) + 1].productId \in DOMAIN cache
  THEN LET item == items[Len(built) + 1]
       IN ResolveCached(items,
                        Append(built, LineItem(cache[item.productId], item)),
                        cache)
  ELSE built

\* the item a caller is looking up
CurrentItem(c) == tplConfig[c][Len(tplLineItems[c]) + 1]

\* the caller runs on from lineItems = built until its next await: the next
\* searchProductBySku call, or the return of the finished template
Continue(c, built, outcomes, cache) ==
  LET full == ResolveCached(tplConfig[c], built, cache)
      hits == [k \in 1..(Len(full) - Len(built)) |-> "cached"]
  IN /\ tplLineItems' = [tplLineItems EXCEPT ![c] = full]
     /\ tplOutcome' = [tplOutcome EXCEPT ![c] = outcomes \o hits]
     /\ tplPc' = [tplPc EXCEPT
                    ![c] = IF Len(full) = Len(tplConfig[c]) THEN "built"
                           ELSE "lookup"]

\* a request calls createShopifyOrderFromConfig(orderConfig); caller 1 is the
\* request whose run is followed, the others are requests for other batches
TemplateStart(c) ==
  /\ tplPc[c] = "start"
  /\ c = 1 => pc = "template"
  /\ Continue(c, <<>>, <<>>, productCache)
  /\ UNCHANGED <<productCache, tplConfig>>
  /\ UNCHANGED <<orchVars, deleteVars, memVars, locVars, cfgVars>>

\* searchProductBySku returns a product: line item, productCache.set
SearchFound(c, price) ==
  /\ tplPc[c] = "lookup"
  /\ LET item == CurrentItem(c)
         data == ProductData(item.productId, price)
         cache == CacheSet(productCache, item.productId, data)
     IN /\ productCache' = cache
        /\ Continue(c, Append(tplLineItems[c], LineItem(data, item)),
                    Append(tplOutcome[c], "found"), cache)
  /\ UNCHANGED tplConfig
  /\ UNCHANGED <<orchVars, deleteVars, memVars, locVars, cfgVars>>

\* searchProductBySku returns null: no variant carries the SKU
SearchNull(c) ==
  /\ tplPc[c] = "lookup"
  /\ Continue(c, Append(tplLineItems[c], FallbackLineItem(CurrentItem(c))),
              Append(tplOutcome[c], "null"), productCache)
  /\ UNCHANGED <<productCache, tplConfig>>
  /\ UNCHANGED <<orchVars, deleteVars, memVars, locVars, cfgVars>>

\* searchProductBySku throws: the catch inside the loop
SearchThrows(c) ==
  /\ tplPc[c] = "lookup"
  /\ Continue(c, Append(tplLineItems[c], FallbackLineItem(CurrentItem(c))),
              Append(tplOutcome[c], "threw"), productCache)
  /\ UNCHANGED <<productCache, tplConfig>>
  /\ UNCHANGED <<orchVars, deleteVars, memVars, locVars, cfgVars>>

\* the create handler goes on without awaiting the template
RunTemplateUnawaited ==
  /\ tplPc[1] # "start"
  /\ RunTemplate

\* the template of the followed run is returned to the create handler
RunTemplateBuilt ==
  /\ tplPc[1] = "built"
  /\ RunTemplate

\* orderCount values of the followed run: one wave and two waves
CacheOrderCounts == {1, BATCH_SIZE + 1}

InitCache ==
  /\ \E n \in CacheOrderCounts : RunInit(JsNumber(n), n)
  /\ productCache = [sku \in {} |-> null]
  /\ tplConfig \in [Callers -> Configs]
  /\ tplPc = [c \in Callers |-> "start"]
  /\ tplLineItems = [c \in Callers |-> <<>>]
  /\ tplOutcome = [c \in Callers |-> <<>>]
  /\ DeleteIdle

NextCache ==
  \/ RunStart \/ RunToProcessing
  \/ \E c \in Callers : TemplateStart(c)
  \/ \E c \in Callers, price \in Prices : SearchFound(c, price)
  \/ \E c \in Callers : SearchNull(c)
  \/ \E c \in Callers : SearchThrows(c)
  \/ RunTemplateBuilt \/ RunCheck \/ RunWaveCounted

SpecCache == InitCache /\ [][NextCache]_vars

\* searchProductBySku calls in flight for a SKU
LookupsInFlight(sku) ==
  {c \in Callers : tplPc[c] = "lookup" /\ CurrentItem(c).productId = sku}

\* C14: when several callers resolve the same uncached SKU at the same time,
\* one searchProductBySku call is made for it: at most one lookup per SKU is
\* in flight at any moment.
C14_OneLookupInFlightPerSku ==
  \A sku \in Skus : Cardinality(LookupsInFlight(sku)) <= 1

\* C15: a line item whose lookup returned null or threw is built as a
\* synthesized line item (the raw SKU, price "0.00", the item's quantity, no
\* variant or product id); the finished template has one line item per
\* configured item, the run never enters its catch block, and it issues a
\* createOrder call for every order.
C15_LookupFailureFallsBack ==
  /\ \A c \in Callers :
       /\ Len(tplOutcome[c]) = Len(tplLineItems[c])
       /\ tplPc[c] = "built" => Len(tplLineItems[c]) = Len(tplConfig[c])
       /\ \A k \in 1..Len(tplLineItems[c]) :
            LET li == tplLineItems[c][k]
                item == tplConfig[c][k]
            IN tplOutcome[c][k] \in {"null", "threw"} =>
                 /\ "sku" \in DOMAIN li
                 /\ li.sku = item.productId
                 /\ li.price = "0.00"
                 /\ li.quantity = item.quantity
                 /\ "variant_id" \notin DOMAIN li
                 /\ "product_id" \notin DOMAIN li
  /\ pc \notin {"catch", "failed"}
  /\ pc = "finalRead" => attempted = orderCount

\* the followed run has issued all its orders from a template whose two
\* lookups failed, one with null and one with an exception
C15_Witness ==
  /\ pc = "finalRead"
  /\ attempted = BATCH_SIZE + 1
  /\ tplOutcome[1] = <<"null", "threw">>

\* =================================================================
\* Bulk deletion: deleteBatchesMutation, DELETE /api/batches/:id and
\* ShopifyAPI.deleteOrder
\* =================================================================
DELETE_BATCH_SIZE == 5

\* a stored createdOrders list of n entries: success records, except for a
\* failure record at position f (f = 0: none; here the first order, if any)
StoredList(n, f) ==
  [k \in 1..n |-> IF k = f THEN FailureRecord(k - 1) ELSE SuccessRecord(k - 1)]

StoredLists ==
  UNION {{StoredList(n, f) : f \in 0..Min(n, 1)} : n \in 0..MaxStoredOrders}

\* order.id && (typeof order.id === 'string' || typeof order.id === 'number')
IsValidOrder(order) == "id" \in DOMAIN order

ValidOrders(orders) == SelectSeq(orders, IsValidOrder)

InvalidCountIgnored(orders) == 0

\* batch.createdOrders.length - validOrders.length
InvalidCount(orders) == Len(orders) - Len(ValidOrders(orders))

OrderIds(orders) ==
  {orders[k].id : k \in {j \in 1..Len(orders) : IsValidOrder(orders[j])}}

\* batchesToDelete.ids of the deletions requested here
DeleteRequests == {<<1>>, <<1, 2>>, <<2, 1>>, <<1, 1>>}

\* the answers of the remote service to the requests of one deleteOrder
\* call - existence check, DELETE, verification; 0: request not made
Responses ==
  {[check |-> 404, del |-> 0, verify |-> 0],
   [check |-> 500, del |-> 0, verify |-> 0],
   [check |-> 200, del |-> 404, verify |-> 0],
   [check |-> 200, del |-> 500, verify |-> 0],
   [check |-> 200, del |-> 200, verify |-> 404],
   [check |-> 200, del |-> 200, verify |-> 200],
   [check |-> 200, del |-> 200, verify |-> 500]}

\* the remote service answers for the order as it is: 404 for an order that
\* does not exist, 200 for one that does
Responds(id, resp) ==
  /\ resp.check = 404 => id \notin remote
  /\ resp.check = 200 => id \in remote

\* the ordinary answers: not found; or found, deleted, gone
IsOrdinary(resp) ==
  \/ resp.check = 404
  \/ resp.check = 200 /\ resp.del = 200 /\ resp.verify = 404

\* the order is gone after a DELETE that took effect, or after it was
\* removed by someone else between the check and the DELETE
RemoteAfter(id, resp) ==
  IF resp.check = 200
       /\ \/ resp.del = 200 /\ resp.verify # 200
          \/ resp.del = 404
  THEN remote \ {id}
  ELSE remote

DeleteOrderResultNotFoundThrows(resp) ==
  IF resp.check # 200 THEN (IF resp.check = 404 THEN "throws" ELSE "success")
  ELSE IF resp.del # 200 THEN "throws"
  ELSE IF resp.verify = 200 THEN "stillExists"
  ELSE "success"

\* deleteOrder: any error of the existence check returns success; an error
\* of the DELETE is rethrown unless its message contains 404; an order that
\* still answers the verification returns success: false
DeleteOrderResult(resp) ==
  IF resp.check # 200 THEN "success"
  ELSE IF resp.del # 200 THEN (IF resp.del = 404 THEN "success" ELSE "throws")
  ELSE IF resp.verify = 200 THEN "stillExists"
  ELSE "success"

\* try { await deleteOrder(...); return {success: true} } catch {success: false}
Settled(resp) ==
  [success |-> DeleteOrderResult(resp) # "throws",
   returned |-> DeleteOrderResult(resp),
   check |-> resp.check, del |-> resp.del, verify |-> resp.verify]

Unissued == [unissued |-> TRUE]

IsSettled(p) == "success" \in DOMAIN p

FaultCount ==
  Cardinality({k \in DOMAIN deletePromises :
                 /\ IsSettled(deletePromises[k])
                 /\ ~IsOrdinary(deletePromises[k])})

\* validOrders.slice(i), as indices: every order that is left
SubWaveUnbounded(start, n) == (start + 1)..n

\* validOrders.slice(i, i + BATCH_SIZE), as indices
SubWave(start, n) == (start + 1)..Min(start + DELETE_BATCH_SIZE, n)

IssueSubWave(promises, start) ==
  [k \in DOMAIN promises |->
     IF k \in SubWave(start, Len(promises)) THEN Pending ELSE promises[k]]

ResponseOkUnchecked(status) == TRUE

\* response.ok
ResponseOk(status) == status \in 200..299

CurrentId == delIds[clientIdx + 1]

clientVars == <<delIds, deleteFromShopify, clientPc, clientIdx, succeeded,
                failed, attempts>>

\* fetch(`/api/batches/${id}`, {method: 'DELETE', ...}) reaches the server
ClientFetch ==
  /\ clientPc = "loop"
  /\ clientPc' = "await"
  /\ handlerPc' = "lookup"
  /\ handlerBatch' = NoBatch
  /\ subStart' = 0
  /\ deletePromises' = <<>>
  /\ shopifyDeletionResults' = [deletedCount |-> 0, failedCount |-> 0]
  /\ httpStatus' = 0
  /\ deleted' = "unset"
  /\ UNCHANGED <<rows, remote, delIds, deleteFromShopify, clientIdx,
                 succeeded, failed, attempts>>
  /\ UNCHANGED <<orchVars, cacheVars, memVars, locVars, cfgVars>>

\* the client counts the id and goes on to the next one, after a delay of
\* one second when orders are deleted remotely
ClientCount(ok, existed, removed) ==
  /\ succeeded' = IF ok THEN succeeded + 1 ELSE succeeded
  /\ failed' = IF ok THEN failed ELSE failed + 1
  /\ attempts' = Append(attempts, [id |-> CurrentId, ok |-> ok,
                                   existed |-> existed, removed |-> removed])
  /\ clientIdx' = clientIdx + 1
  /\ clientPc' = IF clientIdx + 1 >= Len(delIds) THEN "done"
                 ELSE IF deleteFromShopify THEN "delay"
                 ELSE "loop"
  /\ UNCHANGED <<delIds, deleteFromShopify>>

\* fetch rejects: the request never reached the server
ClientFetchFails ==
  /\ clientPc = "loop"
  /\ ClientCount(FALSE, rows[CurrentId].exists, FALSE)
  /\ UNCHANGED <<rows, remote, handlerPc, handlerBatch, subStart,
                 deletePromises, shopifyDeletionResults, httpStatus, deleted>>
  /\ UNCHANGED <<orchVars, cacheVars, memVars, locVars, cfgVars>>

\* the response arrives: response.ok counts the id as succeeded
ClientResponse ==
  /\ clientPc = "await"
  /\ handlerPc = "responded"
  /\ ClientCount(ResponseOk(httpStatus), handlerBatch.exists,
                 deleted = "true")
  /\ UNCHANGED <<rows, remote, handlerPc, handlerBatch, subStart,
                 deletePromises, shopifyDeletionResults, httpStatus, deleted>>
  /\ UNCHANGED <<orchVars, cacheVars, memVars, locVars, cfgVars>>

ClientDelayDone ==
  /\ clientPc = "delay"
  /\ clientPc' = "loop"
  /\ UNCHANGED <<rows, remote, delIds, deleteFromShopify, clientIdx,
                 succeeded, failed, attempts, handlerPc, handlerBatch,
                 subStart, deletePromises, shopifyDeletionResults,
                 httpStatus, deleted>>
  /\ UNCHANGED <<orchVars, cacheVars, memVars, locVars, cfgVars>>

\* storage.getOrderBatch answers: 404 without a row; otherwise the remote
\* purge starts with its first sub-wave, or is skipped
HandlerLookup ==
  /\ handlerPc = "lookup"
  /\ LET row == rows[CurrentId]
         orders == row.createdOrders
         valid == ValidOrders(orders)
     IN IF ~row.exists
        THEN /\ httpStatus' = 404
             /\ handlerPc' = "responded"
             /\ UNCHANGED <<handlerBatch, deletePromises,
                            shopifyDeletionResults>>
        ELSE /\ handlerBatch' = row
             /\ httpStatus' = httpStatus
             /\ IF deleteFromShopify /\ Len(orders) > 0
                THEN IF Len(valid) > 0
                     THEN /\ deletePromises' =
                               IssueSubWave([k \in 1..Len(valid) |-> Unissued],
                                            0)
                          /\ handlerPc' = "await"
                          /\ UNCHANGED shopifyDeletionResults
                     ELSE /\ shopifyDeletionResults' =
                               [shopifyDeletionResults EXCEPT
                                  !.failedCount = @ + InvalidCount(orders)]
                          /\ handlerPc' = "local"
                          /\ UNCHANGED deletePromises
                ELSE /\ handlerPc' = "local"
                     /\ UNCHANGED <<deletePromises, shopifyDeletionResults>>
  /\ UNCHANGED <<rows, remote, subStart, deleted>>
  /\ UNCHANGED clientVars
  /\ UNCHANGED <<orchVars, cacheVars, memVars, locVars, cfgVars>>

\* storage.getOrderBatch throws: the handler's catch answers 500
GetOrderBatchThrows ==
  /\ handlerPc = "lookup"
  /\ httpStatus' = 500
  /\ handlerPc' = "responded"
  /\ UNCHANGED <<rows, remote, handlerBatch, subStart, deletePromises,
                 shopifyDeletionResults, deleted>>
  /\ UNCHANGED clientVars
  /\ UNCHANGED <<orchVars, cacheVars, memVars, locVars, cfgVars>>

\* one deleteOrder call of the sub-wave in flight settles
DeleteOrderSettles(k, resp) ==
  /\ handlerPc = "await"
  /\ k \in DOMAIN deletePromises
  /\ deletePromises[k] = Pending
  /\ LET id == ValidOrders(handlerBatch.createdOrders)[k].id
     IN /\ Responds(id, resp)
        /\ IsOrdinary(resp) \/ FaultCount < MaxRemoteFaults
        /\ remote' = RemoteAfter(id, resp)
  /\ deletePromises' = [deletePromises EXCEPT ![k] = Settled(resp)]
  /\ UNCHANGED <<rows, handlerPc, handlerBatch, subStart,
                 shopifyDeletionResults, httpStatus, deleted>>
  /\ UNCHANGED clientVars
  /\ UNCHANGED <<orchVars, cacheVars, memVars, locVars, cfgVars>>

\* Promise.all of the sub-wave resolves: the counters are updated; then the
\* 200 ms pause before the next sub-wave, or the invalid entries are added
SubWaveDone ==
  /\ handlerPc = "await"
  /\ LET n == Len(deletePromises)
         wave == SubWave(subStart, n)
         ok == {k \in wave : deletePromises[k].success}
         last == ~(subStart + DELETE_BATCH_SIZE < n)
     IN /\ \A k \in wave : IsSettled(deletePromises[k])
        /\ shopifyDeletionResults' =
             [deletedCount |->
                shopifyDeletionResults.deletedCount + Cardinality(ok),
              failedCount |->
                shopifyDeletionResults.failedCount + Cardinality(wave \ ok)
                  + IF last THEN InvalidCount(handlerBatch.createdOrders)
                    ELSE 0]
        /\ handlerPc' = IF last THEN "local" ELSE "pause"
  /\ UNCHANGED <<rows, remote, handlerBatch, subStart, deletePromises,
                 httpStatus, deleted>>
  /\ UNCHANGED clientVars
  /\ UNCHANGED <<orchVars, cacheVars, memVars, locVars, cfgVars>>

\* the pause is over: i += BATCH_SIZE and the next sub-wave is issued
SubWaveNext ==
  /\ handlerPc = "pause"
  /\ subStart' = subStart + DELETE_BATCH_SIZE
  /\ deletePromises' =
       IssueSubWave(deletePromises, subStart + DELETE_BATCH_SIZE)
  /\ handlerPc' = "await"
  /\ UNCHANGED <<rows, remote, handlerBatch, shopifyDeletionResults,
                 httpStatus, deleted>>
  /\ UNCHANGED clientVars
  /\ UNCHANGED <<orchVars, cacheVars, memVars, locVars, cfgVars>>

\* the local delete without waiting for the sub-wave in flight
HandlerLocalDeleteEarly ==
  /\ handlerPc \in {"local", "await"}
  /\ deleted' = IF rows[CurrentId].exists THEN "true" ELSE "false"
  /\ rows' = [rows EXCEPT ![CurrentId] = NoBatch]
  /\ httpStatus' = IF rows[CurrentId].exists THEN 200 ELSE 500
  /\ handlerPc' = "responded"
  /\ UNCHANGED <<remote, handlerBatch, subStart, deletePromises,
                 shopifyDeletionResults>>
  /\ UNCHANGED clientVars
  /\ UNCHANGED <<orchVars, cacheVars, memVars, locVars, cfgVars>>

\* storage.deleteOrderBatch answers: rowCount > 0 is 200, otherwise 500
HandlerLocalDelete ==
  /\ handlerPc = "local"
  /\ deleted' = IF rows[CurrentId].exists THEN "true" ELSE "false"
  /\ rows' = [rows EXCEPT ![CurrentId] = NoBatch]
  /\ httpStatus' = IF rows[CurrentId].exists THEN 200 ELSE 500
  /\ handlerPc' = "responded"
  /\ UNCHANGED <<remote, handlerBatch, subStart, deletePromises,
                 shopifyDeletionResults>>
  /\ UNCHANGED clientVars
  /\ UNCHANGED <<orchVars, cacheVars, memVars, locVars, cfgVars>>

\* storage.deleteOrderBatch throws: the handler's catch answers 500
DeleteOrderBatchThrows ==
  /\ handlerPc = "local"
  /\ deleted' = "threw"
  /\ httpStatus' = 500
  /\ handlerPc' = "responded"
  /\ UNCHANGED <<rows, remote, handlerBatch, subStart, deletePromises,
                 shopifyDeletionResults>>
  /\ UNCHANGED clientVars
  /\ UNCHANGED <<orchVars, cacheVars, memVars, locVars, cfgVars>>

\* another client's DELETE removes the row while this handler is at work
OtherClientDeletes ==
  /\ handlerPc \in {"await", "pause", "local"}
  /\ rows[CurrentId].exists
  /\ rows' = [rows EXCEPT ![CurrentId] = NoBatch]
  /\ UNCHANGED <<remote, handlerPc, handlerBatch, subStart, deletePromises,
                 shopifyDeletionResults, httpStatus, deleted>>
  /\ UNCHANGED clientVars
  /\ UNCHANGED <<orchVars, cacheVars, memVars, locVars, cfgVars>>

\* batch 1 is a finished batch with its stored orders, of which the last may
\* be gone from the shop already; batch 2 may exist, without orders
InitDelete ==
  /\ RunInit(JsNumber(1), 1)
  /\ CacheIdle
  /\ \E orders \in StoredLists, exists2 \in BOOLEAN :
       /\ rows = [id \in BatchIds |->
                    IF id = 1
                    THEN [exists |-> TRUE, createdOrders |-> orders]
                    ELSE [exists |-> exists2, createdOrders |-> <<>>]]
       /\ \E gone \in {0, Len(orders)} :
            remote = OrderIds(orders) \ {SuccessRecord(gone - 1).id}
  /\ delIds \in DeleteRequests
  /\ deleteFromShopify \in BOOLEAN
  /\ clientPc = "loop"
  /\ clientIdx = 0
  /\ succeeded = 0
  /\ failed = 0
  /\ attempts = <<>>
  /\ handlerPc = "idle"
  /\ handlerBatch = NoBatch
  /\ subStart = 0
  /\ deletePromises = <<>>
  /\ shopifyDeletionResults = [deletedCount |-> 0, failedCount |-> 0]
  /\ httpStatus = 0
  /\ deleted = "unset"

NextDelete ==
  \/ ClientFetch \/ ClientFetchFails \/ ClientResponse \/ ClientDelayDone
  \/ HandlerLookup \/ GetOrderBatchThrows
  \/ \E k \in 1..MaxStoredOrders, resp \in Responses :
       DeleteOrderSettles(k, resp)
  \/ SubWaveDone \/ SubWaveNext
  \/ HandlerLocalDelete \/ DeleteOrderBatchThrows \/ OtherClientDeletes

SpecDelete == InitDelete /\ [][NextDelete]_vars

PurgeRequested ==
  /\ handlerBatch.exists
  /\ deleteFromShopify
  /\ Len(handlerBatch.createdOrders) > 0

Threw == {k \in DOMAIN deletePromises : deletePromises[k].returned = "throws"}

\* C17: in a DELETE with deleteFromShopify on a batch with recorded orders,
\* once the purge is over every valid entry has had its deleteOrder call
\* settled, failedCount is the number of calls that threw plus the number of
\* entries without a valid id, deletedCount + failedCount is the number of
\* entries, and the response is sent only after the removal of the local
\* record was attempted.
C17_PurgeIsolatesFailures ==
  (PurgeRequested /\ handlerPc \in {"local", "responded"}) =>
    LET orders == handlerBatch.createdOrders
    IN /\ Len(deletePromises) = Len(ValidOrders(orders))
       /\ \A k \in DOMAIN deletePromises : IsSettled(deletePromises[k])
       /\ shopifyDeletionResults.failedCount
            = Cardinality(Threw) + (Len(orders) - Len(ValidOrders(orders)))
       /\ shopifyDeletionResults.deletedCount
            + shopifyDeletionResults.failedCount = Len(orders)
       /\ handlerPc = "responded" => deleted # "unset"

\* a batch with an entry without id and a remote delete that threw is
\* removed locally, both entries counted as failed
C17_Witness ==
  /\ PurgeRequested
  /\ handlerPc = "responded"
  /\ httpStatus = 200
  /\ Len(handlerBatch.createdOrders) - Len(deletePromises) = 1
  /\ Threw # {}
  /\ shopifyDeletionResults.failedCount >= 2
  /\ shopifyDeletionResults.deletedCount >= 1

\* the purge of a batch of two orders: one was gone already, the other was
\* found, deleted and verified gone
OneLiveOneGone ==
  /\ PurgeRequested
  /\ Len(handlerBatch.createdOrders) = 2
  /\ Len(deletePromises) = 2
  /\ \A k \in 1..2 : IsSettled(deletePromises[k])
  /\ \E k \in 1..2 : deletePromises[k].check = 404
  /\ \E k \in 1..2 :
       /\ deletePromises[k].check = 200
       /\ deletePromises[k].del = 200
       /\ deletePromises[k].verify = 404

\* C18: a deleteOrder call whose existence check or DELETE was answered 404
\* returns success and is counted as deleted; for a batch with one live and
\* one already-deleted order the purge counts 2 deleted and 0 failed, and
\* the local delete that follows leaves no row (answering 200 when it
\* removed the row itself).
C18_AlreadyGoneIsSuccess ==
  /\ \A k \in DOMAIN deletePromises :
       (/\ IsSettled(deletePromises[k])
        /\ deletePromises[k].check = 404 \/ deletePromises[k].del = 404)
         => /\ deletePromises[k].returned = "success"
            /\ deletePromises[k].success
  /\ (OneLiveOneGone /\ handlerPc \in {"local", "responded"}) =>
       /\ shopifyDeletionResults = [deletedCount |-> 2, failedCount |-> 0]
       /\ (handlerPc = "responded" /\ clientPc = "await"
             /\ deleted # "threw") => ~rows[CurrentId].exists
       /\ (handlerPc = "responded" /\ deleted = "true") => httpStatus = 200

C18_Witness ==
  /\ OneLiveOneGone
  /\ handlerPc = "responded"
  /\ httpStatus = 200
  /\ shopifyDeletionResults.deletedCount = 2
  /\ clientPc = "await"
  /\ ~rows[CurrentId].exists

\* =================================================================
\* Further properties of POST /api/orders/create and /api/orders/cancel
\* =================================================================
\* C21: the row is read anew before every wave (the step that arrives at the
\* decision to issue takes currentBatch from the row); a wave is issued only
\* when the row just read does not carry the sentinel; once the sentinel was
\* read no further order is issued, nothing is in flight, the result list
\* holds one entry for every order issued, and the finalization of the run
\* stores exactly that list.
C21_State ==
  /\ pc = "await" => ~IsCancelSentinel(currentBatch)
  /\ stoppedByCancel =>
       /\ batchPromises = <<>>
       /\ attempted = batchStart
       /\ Len(createdOrders) = attempted
       /\ pc \in {"respond", "done"} => batch.createdOrders = createdOrders

C21_Step ==
  /\ (pc # "issue" /\ pc' = "issue") => currentBatch' = batch
  /\ waveLog' # waveLog =>
       /\ pc = "issue"
       /\ ~IsCancelSentinel(currentBatch)
       /\ ~stoppedByCancel
  /\ stoppedByCancel => (attempted' = attempted /\ waveLog' = waveLog)

C21_CancelStopsWavesKeepsResults == []C21_State /\ [][C21_Step]_vars

\* a run of two waves was stopped after its first wave and has answered
C21_Witness ==
  /\ stoppedByCancel
  /\ pc = "done"
  /\ Len(batch.createdOrders) = BATCH_SIZE
  /\ orderCount > BATCH_SIZE

\* C22: between two waves - wave k has settled, no order of wave k + 1 is
\* issued yet - the persisted progress is the integer nearest to
\* 100 * a / N, where a = min(10 * k, N) orders have been attempted.
C22_ProgressBetweenWaves ==
  (pc \in {"check", "issue"} /\ Len(waveLog) >= 1) =>
    LET a == Min(BATCH_SIZE * Len(waveLog), orderCount)
        p == batch.progress
    IN /\ a = attempted
       /\ p \in 0..100
       /\ 2 * (100 * a - p * orderCount) <= orderCount
       /\ 2 * (p * orderCount - 100 * a) <= orderCount

\* the first of three waves has settled: 10 of 25 orders, progress 40
C22_Witness ==
  /\ pc = "check"
  /\ orderCount = 25
  /\ Len(waveLog) = 1
  /\ batch.progress = 40

\* the messages a finalization records for a cancelled run of n orders
CancelMessages(n) ==
  {CANCELLED_MESSAGE}
    \cup {"Cancelled by user - " \o ToString(x) \o " of " \o ToString(n)
            \o " orders created" : x \in 1..n}

\* C23: when the row carries a cancel request's sentinel at the moment the
\* run's completeOrderBatch write is made, the finalized row records the
\* cancellation: status partial or failed, a message that starts with
\* "Cancelled by user", never completed.
C23_FinalizationRecordsCancel ==
  [][(pc = "complete" /\ pc' = "respond" /\ IsCancelSentinel(batch)) =>
       /\ batch'.status \in {"partial", "failed"}
       /\ batch'.errorMessage \in CancelMessages(orderCount)]_vars

\* C24: completeOrderBatch takes effect at most once per run, whatever step
\* of the run throws.
C24_FinalizedOnce == finalizations <= 1

\* C25: a row whose status is completed has no errorMessage.
C25_CompletedHasNoMessage ==
  batch.status = "completed" => batch.errorMessage = null

\* ------------------------------------------------------------------
\* The run while DELETE /api/batches/:id removes its row
\* ------------------------------------------------------------------
\* storage.deleteOrderBatch(batchId) of a DELETE request for the batch of
\* the run in progress: DELETE FROM order_batches WHERE id = batchId
DeleteBatchRow ==
  /\ pc \in {"toProcessing", "template", "check", "issue", "await",
             "finalRead", "complete"}
  /\ batch # NoRow
  /\ batch' = NoRow
  /\ UNCHANGED <<rawOrderCount, cancelPc, cancelCount, cancelWritten,
                 cancelDuringRun, thrown, issuedAfterCancel, stoppedByCancel,
                 progressLog, attempted, waveLog, finalizations,
                 settledOutOfOrder>>
  /\ UNCHANGED runVars
  /\ UNCHANGED auxVars

NextRunDelete ==
  \/ RunStart \/ RunToProcessing \/ RunTemplate \/ RunCheck \/ RunIssue
  \/ \E i \in 0..(MaxOrderCount + BATCH_SIZE) : CreateOrderFulfilled(i)
  \/ RunWaveDone \/ RunFinalRead \/ RunComplete \/ RunRespond
  \/ DeleteBatchRow

SpecRunDelete == Init /\ [][NextRunDelete]_vars

\* C26: once the cancellation check of a wave has found no row for the batch
\* id - the record was deleted during the run - the run issues no order of
\* that wave.
C26_NoWaveAfterRowDeleted ==
  [][(pc = "issue" /\ currentBatch = NoRow) => waveLog' = waveLog]_vars

\* ------------------------------------------------------------------
\* A create request for a batch that is not pending: another run of the
\* batch is at work, or the batch was finalized
\* ------------------------------------------------------------------
NonPendingRows(n) ==
  {[PendingRow(n) EXCEPT !.status = "processing"],
   [PendingRow(n) EXCEPT !.status = "completed", !.progress = 100,
                         !.createdOrders = [k \in 1..n |-> SuccessRecord(k - 1)]]}

InitRerun ==
  \E n \in 1..MaxBatchOrderCount :
     \E row \in NonPendingRows(n) :
        RunInitRow(JsNumber(n), row) /\ CacheIdle /\ DeleteIdle

SpecRerun == InitRerun /\ [][Next]_vars

\* C27: a create request that finds its batch in a status other than pending
\* starts no run: its transition to processing leaves the status and the
\* progress of the row as they are.
C27_NonPendingBatchIsNotRestarted ==
  [][(pc = "toProcessing" /\ pc' = "template" /\ batch.status # "pending") =>
       /\ batch'.status = batch.status
       /\ batch'.progress = batch.progress]_vars

\* ------------------------------------------------------------------
\* Further properties of createShopifyOrderFromConfig and productCache
\* ------------------------------------------------------------------
\* searchProductBySku calls a caller has made: one per line item that was
\* not taken from the cache, and the one in flight
SearchCalls(c) ==
  Cardinality({k \in 1..Len(tplOutcome[c]) : tplOutcome[c][k] # "cached"})
  + IF tplPc[c] = "lookup" THEN 1 ELSE 0

C28_State ==
  /\ \A c \in Callers : SearchCalls(c) <= Len(tplConfig[c])
  /\ (attempted > 0 \/ pc \in {"check", "issue", "finalRead"}) =>
       tplPc[1] = "built"

C28_Step ==
  pc \in {"check", "issue", "finalRead"} =>
    /\ SearchCalls(1)' = SearchCalls(1)
    /\ tplLineItems'[1] = tplLineItems[1]

\* C28: a caller makes at most one searchProductBySku call per line item of
\* its configuration, whatever the order count; the followed run makes all
\* of them before its wave loop: once the loop is entered the template is
\* built and no further lookup is made.
C28_LookupsOnlyWhileTemplateBuilt == []C28_State /\ [][C28_Step]_vars

\* a run of two waves has issued all its orders after two lookups
C28_Witness ==
  /\ pc = "finalRead"
  /\ attempted = BATCH_SIZE + 1
  /\ SearchCalls(1) = 2

\* C29: in every step the cache keeps each entry it has, unchanged; an entry
\* is added only for the SKU of a lookup that returned a product in that
\* step; and a lookup is issued only for a SKU that is not in the cache.
C29_CacheOnlyGrows ==
  [][/\ \A sku \in DOMAIN productCache :
          /\ sku \in DOMAIN productCache'
          /\ productCache'[sku] = productCache[sku]
     /\ \A sku \in (DOMAIN productCache') \ (DOMAIN productCache) :
          \E c \in Callers :
             /\ Len(tplOutcome'[c]) > Len(tplOutcome[c])
             /\ tplOutcome'[c][Len(tplOutcome[c]) + 1] = "found"
             /\ tplConfig[c][Len(tplOutcome[c]) + 1].productId = sku
     /\ \A c \in Callers :
          (/\ tplPc'[c] = "lookup"
           /\ tplPc[c] = "start" \/ tplLineItems'[c] # tplLineItems[c])
            => tplConfig[c][Len(tplLineItems'[c]) + 1].productId
                 \notin DOMAIN productCache']_vars

\* ------------------------------------------------------------------
\* Further properties of DELETE /api/batches/:id
\* ------------------------------------------------------------------
\* the sub-wave of the k-th valid order: 0 for the orders 1..5, 1 for 6..10
SubWaveOf(k) == (k - 1) \div DELETE_BATCH_SIZE

\* C30: at most 5 deleteOrder calls are in flight, and a deleteOrder call
\* has been issued only if every call of the sub-waves before its own has
\* settled.
C30_SubWaveBarrier ==
  /\ Cardinality({k \in DOMAIN deletePromises : deletePromises[k] = Pending})
       <= DELETE_BATCH_SIZE
  /\ \A k \in DOMAIN deletePromises :
       deletePromises[k] # Unissued =>
         \A j \in DOMAIN deletePromises :
            SubWaveOf(j) < SubWaveOf(k) => IsSettled(deletePromises[j])

\* the second sub-wave is in flight, after a first one with a call that threw
C30_Witness ==
  /\ handlerPc = "await"
  /\ subStart = DELETE_BATCH_SIZE
  /\ deletePromises[DELETE_BATCH_SIZE + 1] = Pending
  /\ \E j \in 1..DELETE_BATCH_SIZE : deletePromises[j].returned = "throws"

\* =================================================================
\* Further properties of DELETE /api/batches/:id and deleteOrder
\* =================================================================
\* no deleteOrder call of the handler is unissued or in flight
AllDeletionsSettled ==
  \A k \in DOMAIN deletePromises : IsSettled(deletePromises[k])

\* C31: the handler attempts the removal of the local record only when every
\* deleteOrder call for the batch has settled; failed remote deletions do
\* not keep it from doing so - after the purge the handler always goes on to
\* the local delete, and a local delete that did not throw leaves no row;
\* without deleteFromShopify no deleteOrder call is made and the remote
\* orders are left alone.
C31_State ==
  /\ handlerPc \in {"local", "responded"} => AllDeletionsSettled
  /\ (handlerPc = "responded" /\ clientPc = "await" /\ handlerBatch.exists
        /\ deleted # "threw") => /\ deleted # "unset"
                                 /\ ~rows[CurrentId].exists
  /\ ~deleteFromShopify => deletePromises = <<>>

C31_Step ==
  /\ deleted' # deleted /\ deleted' # "unset" =>
        /\ handlerPc = "local"
        /\ AllDeletionsSettled
        /\ PurgeRequested =>
              Len(deletePromises) = Len(ValidOrders(handlerBatch.createdOrders))
  /\ (handlerPc = "await" /\ handlerPc' # "await") =>
        handlerPc' \in {"pause", "local"}
  /\ ~deleteFromShopify => remote' = remote

C31_LocalDeleteAfterRemote == []C31_State /\ [][C31_Step]_vars

\* the only remote deletion of the batch failed, and the record was removed
C31_Witness ==
  /\ PurgeRequested
  /\ handlerPc = "responded"
  /\ clientPc = "await"
  /\ deleted = "true"
  /\ Len(deletePromises) = 1
  /\ Threw = {1}
  /\ ~rows[CurrentId].exists

\* =================================================================
\* Results of a run
\* =================================================================
\* the success records among the results the run collected
CreatedRemotely ==
  {createdOrders[k] : k \in {j \in 1..Len(createdOrders) :
                                 ~HasError(createdOrders[j])}}

\* the records of the stored createdOrders column
Persisted(row) ==
  IF row = NoRow THEN {}
  ELSE {row.createdOrders[k] : k \in 1..Len(row.createdOrders)}

\* C32: once the run has ended, every order it created remotely is a success
\* record of the batch's stored createdOrders.
C32_CreatedOrdersArePersisted ==
  pc \in {"done", "failed"} => CreatedRemotely \subseteq Persisted(batch)

\* =================================================================
\* Counting and reporting of remote deletions
\* =================================================================
\* the deleteOrder calls that returned success: true
ReturnedSuccess ==
  {k \in DOMAIN deletePromises : deletePromises[k].returned = "success"}

\* C33: once the purge is over, deletedCount is the number of orders for
\* which deleteOrder returned success: true, and every other order - one
\* whose call threw, one for which deleteOrder returned success: false, one
\* without a valid id - is counted in failedCount.
C33_StillExistingCountedFailed ==
  (PurgeRequested /\ handlerPc \in {"local", "responded"}) =>
    /\ shopifyDeletionResults.deletedCount = Cardinality(ReturnedSuccess)
    /\ shopifyDeletionResults.failedCount
         = Cardinality(DOMAIN deletePromises \ ReturnedSuccess)
           + InvalidCount(handlerBatch.createdOrders)

\* a request of the call was answered with an error other than 404
NonNotFoundError(p) == 500 \in {p.check, p.del, p.verify}

\* C34: a deleteOrder call that returned success: true leaves no remote
\* order of that id, and none of its requests - existence check, DELETE,
\* verification - was answered with an error other than 404.
C34_SuccessOnlyIfGone ==
  \A k \in DOMAIN deletePromises :
    (IsSettled(deletePromises[k]) /\ deletePromises[k].returned = "success")
      => /\ ValidOrders(handlerBatch.createdOrders)[k].id \notin remote
         /\ ~NonNotFoundError(deletePromises[k])

\* =================================================================
\* Order of the result list
\* =================================================================
\* the outcome of order k (1-based): the record its createOrder call led to
OutcomeOf(k) ==
  IF (k - 1) \in thrown THEN FailureRecord(k - 1) ELSE SuccessRecord(k - 1)

IsOrderedByIndex(orders) ==
  \A k \in 1..Len(orders) :
    /\ orders[k] = OutcomeOf(k)
    /\ HasError(orders[k]) => orders[k].orderIndex = k

\* C35: whatever the order in which the createOrder calls of a wave settle,
\* the k-th entry of the result list - the local one at any time, the stored
\* one once the run has ended - is the outcome of order k, and a failure
\* record at position k has orderIndex k.
C35_ResultsOrderedByIndex ==
  /\ IsOrderedByIndex(createdOrders)
  /\ pc \in {"respond", "done", "failed"} =>
       IsOrderedByIndex(batch.createdOrders)
  /\ pc = "done" => batch.createdOrders = createdOrders

\* a wave of 10 whose calls did not settle in index order, order 7 failing
C35_Witness ==
  /\ pc = "done"
  /\ orderCount = 10
  /\ settledOutOfOrder
  /\ thrown = {6}
  /\ Len(batch.createdOrders) = 10
  /\ batch.createdOrders[7] = FailureRecord(6)
  /\ batch.createdOrders[10] = SuccessRecord(9)

\* =================================================================
\* MemStorage next to DatabaseStorage
\* =================================================================
\* MemStorage.updateOrderBatchProgress: if (!batch) return undefined;
\* {...batch, progress [, status]}
MemUpdateOrderBatchProgress(row, progress, status) ==
  IF row = NoRow THEN NoRow
  ELSE IF status # null
    THEN [row EXCEPT !.progress = progress, !.status = status]
    ELSE [row EXCEPT !.progress = progress]

\* MemStorage.updateOrderBatch: {...existing, ...updates}
MemUpdateOrderBatch(row, updates) ==
  IF row = NoRow THEN NoRow
  ELSE [f \in DOMAIN row |->
          IF f \in DOMAIN updates THEN updates[f] ELSE row[f]]

\* MemStorage.completeOrderBatch(batchId, createdOrders, errorMessage): a
\* fourth argument is not received; status is errorMessage ? "failed" :
\* "completed", and errorMessage is always written
MemCompleteOrderBatch(row, orders, message, status) ==
  IF row = NoRow THEN NoRow
  ELSE [row EXCEPT !.status = IF message # null /\ message # ""
                                THEN "failed" ELSE "completed",
                   !.progress = 100,
                   !.createdOrders = orders,
                   !.errorMessage = message]

\* the arguments of the calls made here
StorageProgress == {0, 50}
StorageStatuses == {null, "processing"}
StorageUpdates == {[status |-> "failed", errorMessage |-> CANCELLED_MESSAGE]}
StorageOrders == {<<>>, <<SuccessRecord(0), FailureRecord(1)>>}
StorageMessages == {null, "1 of 2 orders created successfully"}
StorageFinalStatuses == {null, "partial"}

\* everything but the two stored rows
storageFrame ==
  <<rawOrderCount, pc, orderCount, batchStart, currentBatch, createdOrders,
    batchPromises, finalStatus, errorMessage, response, cancelPc, cancelCount,
    cancelWritten, cancelDuringRun, thrown, issuedAfterCancel, stoppedByCancel,
    progressLog, caught, attempted, waveLog, finalizations,
    settledOutOfOrder, cacheVars, deleteVars, locVars, cfgVars>>

\* createOrderBatch(insertBatch) with status pending, on both storages
StorageCreate ==
  /\ batch = NoRow
  /\ memBatch = NoRow
  /\ \E n \in 1..MaxBatchOrderCount :
       /\ batch' = PendingRow(n)
       /\ memBatch' = PendingRow(n)
  /\ UNCHANGED storageFrame

StorageUpdateProgress(progress, status) ==
  /\ batch' = updateOrderBatchProgress(batch, progress, status)
  /\ memBatch' = MemUpdateOrderBatchProgress(memBatch, progress, status)
  /\ UNCHANGED storageFrame

StorageUpdate(updates) ==
  /\ batch' = updateOrderBatch(batch, updates)
  /\ memBatch' = MemUpdateOrderBatch(memBatch, updates)
  /\ UNCHANGED storageFrame

StorageComplete(orders, message, status) ==
  /\ batch' = completeOrderBatch(batch, orders, message, status)
  /\ memBatch' = MemCompleteOrderBatch(memBatch, orders, message, status)
  /\ UNCHANGED storageFrame

\* deleteOrderBatch(id), on both storages
StorageDelete ==
  /\ batch' = NoRow
  /\ memBatch' = NoRow
  /\ UNCHANGED storageFrame

\* both storages start empty
InitStorage ==
  /\ RunInitRow(JsNumber(1), NoRow)
  /\ CacheIdle
  /\ DeleteIdle

NextStorage ==
  \/ StorageCreate
  \/ \E progress \in StorageProgress, status \in StorageStatuses :
       StorageUpdateProgress(progress, status)
  \/ \E updates \in StorageUpdates : StorageUpdate(updates)
  \/ \E orders \in StorageOrders, message \in StorageMessages,
        status \in StorageFinalStatuses :
       StorageComplete(orders, message, status)
  \/ StorageDelete

SpecStorage == InitStorage /\ [][NextStorage]_vars

\* C36: after the same sequence of calls, the batch has the same status,
\* progress, errorMessage and createdOrders in MemStorage and in
\* DatabaseStorage.
C36_StoragesAgree ==
  /\ memBatch.status = batch.status
  /\ memBatch.progress = batch.progress
  /\ memBatch.errorMessage = batch.errorMessage
  /\ memBatch.createdOrders = batch.createdOrders

\* =================================================================
\* ShopifyAPI.updateOrderLocationFromTags
\* =================================================================
\* approaches.length
APPROACHES == 3

\* statuses of the answers that make makeRequest throw
ErrorStatuses == {404, 500}

\* new Error(`Shopify API Error: ${response.status} - ${errorText}`)
ApiError(status) == "Shopify API Error: " \o ToString(status)

WarehouseNameFromId(id) ==
  CASE id = BBL -> "BBL"
    [] id = BBH -> "BBH"
    [] id = BBP -> "BBP"
    [] OTHER -> "UNKNOWN"

\* the request approach i (0-based) sends after `step` completed requests
RequestOf(i, step) ==
  IF i = 0
  THEN [method |-> "PUT", path |-> "/orders/id.json", item |-> 0,
        body |-> locationId]
  ELSE IF i = 1
  THEN [method |-> "POST", path |-> "/orders/id/metafields.json", item |-> 0,
        body |-> locationId]
  ELSE IF step = 0
  THEN [method |-> "GET", path |-> "/orders/id.json", item |-> 0,
        body |-> ""]
  ELSE [method |-> "PUT", path |-> "/orders/id/line_items/item.json",
        item |-> step,
        body |-> "WAREHOUSE_" \o WarehouseNameFromId(locationId)]

Logged(i, step, status) ==
  [approach |-> i + 1, request |-> RequestOf(i, step), status |-> status]

\* what approach i returns when it succeeds
ResultOf(i) ==
  IF i = 0 THEN "response of PUT order"
  ELSE IF i = 1 THEN "response of POST metafield"
  ELSE "{success: true}"

\* the approach is over once its only request, or the GET of an order
\* without line items, or the PUT of the last line item was answered
ApproachComplete(i, step) == i < 2 \/ step = lineItems

\* the error of the first request that failed
FirstError(log) ==
  LET k == CHOOSE j \in 1..Len(log) :
             /\ log[j].status # 200
             /\ \A h \in 1..(j - 1) : log[h].status = 200
  IN ApiError(log[k].status)

\* throw error: the error caught in this iteration
CaughtError(log) == ApiError(log[Len(log)].status)

locFrame == <<orchVars, cacheVars, deleteVars, memVars, cfgVars>>

\* updateOrderLocationFromTags(orderId, locationId) is called
LocCall(location, items) ==
  /\ locResult = NotCalled
  /\ locationId' = location
  /\ lineItems' = items
  /\ locResult' = NoResult
  /\ UNCHANGED <<approachIdx, approachStep, requests>>
  /\ UNCHANGED locFrame

\* the request in flight is answered 200
RequestSucceeds ==
  /\ locResult = NoResult
  /\ requests' = Append(requests, Logged(approachIdx, approachStep, 200))
  /\ IF ApproachComplete(approachIdx, approachStep)
     THEN /\ locResult' = [kind |-> "returned",
                           approach |-> approachIdx + 1,
                           value |-> ResultOf(approachIdx)]
          /\ UNCHANGED <<approachIdx, approachStep>>
     ELSE /\ approachStep' = approachStep + 1
          /\ UNCHANGED <<approachIdx, locResult>>
  /\ UNCHANGED <<locationId, lineItems>>
  /\ UNCHANGED locFrame

\* makeRequest throws: caught; rethrown by the last approach, otherwise the
\* next approach is tried
RequestFails(status) ==
  /\ locResult = NoResult
  /\ requests' = Append(requests, Logged(approachIdx, approachStep, status))
  /\ IF approachIdx = APPROACHES - 1
     THEN /\ locResult' = [kind |-> "thrown",
                           approach |-> approachIdx + 1,
                           value |-> CaughtError(requests')]
          /\ UNCHANGED <<approachIdx, approachStep>>
     ELSE /\ approachIdx' = approachIdx + 1
          /\ approachStep' = 0
          /\ UNCHANGED locResult
  /\ UNCHANGED <<locationId, lineItems>>
  /\ UNCHANGED locFrame

InitLocation == InitWith(JsNumber(1), 1)

NextLocation ==
  \/ \E location \in LocationIds, items \in 0..MaxLineItems :
       LocCall(location, items)
  \/ RequestSucceeds
  \/ \E status \in ErrorStatuses : RequestFails(status)

SpecLocation == InitLocation /\ [][NextLocation]_vars

\* the approaches (1-based) that have sent a request, and those that failed
Tried == {requests[k].approach : k \in 1..Len(requests)}
FailedApproaches ==
  {requests[k].approach : k \in {j \in 1..Len(requests) :
                                    requests[j].status # 200}}

\* C37: the approaches are tried in order - approach a + 1 sends a request
\* only after approach a failed, and no approach goes on after a failure;
\* the call returns the result of the first approach that succeeds, and no
\* later approach has sent a request; it throws only when all approaches
\* failed, and the error is the one of the last approach.
C37_FirstSuccessWins ==
  /\ \A k \in 1..Len(requests) :
       /\ k = 1 => requests[k].approach = 1
       /\ k > 1 =>
            IF requests[k - 1].status = 200
            THEN requests[k].approach = requests[k - 1].approach
            ELSE requests[k].approach = requests[k - 1].approach + 1
  /\ locResult.kind = "returned" =>
       /\ locResult.approach = requests[Len(requests)].approach
       /\ locResult.value = ResultOf(locResult.approach - 1)
       /\ FailedApproaches = 1..(locResult.approach - 1)
       /\ Tried = 1..locResult.approach
  /\ locResult.kind = "thrown" =>
       /\ FailedApproaches = 1..APPROACHES
       /\ requests[Len(requests)].approach = APPROACHES
       /\ locResult.value = ApiError(requests[Len(requests)].status)
  /\ locResult.kind = "none" =>
       \A k \in 1..Len(requests) :
         requests[k].status # 200 => requests[k].approach < APPROACHES

\* every approach failed, the first with 404 and the last with 500 after
\* one of its line items was updated: the error thrown is the last one
C37_Witness ==
  /\ locResult.kind = "thrown"
  /\ requests[1].status = 404
  /\ Len(requests) = 4
  /\ locResult.value = ApiError(500)

\* =================================================================
\* DELETE /api/configurations/:id
\* =================================================================
cfgFrame == <<orchVars, cacheVars, deleteVars, memVars, locVars>>

\* allBatches.filter(batch => batch.configurationId === id), as ids
LinkedTo(id) ==
  {b \in LinkBatchIds :
     orderBatches[b].exists /\ orderBatches[b].configurationId = id}

\* the orders in which getAllOrderBatches can list the batches of a set
Listings(set) ==
  {seq \in UNION {[1..n -> set] : n \in {Cardinality(set)}} :
     \A i, j \in DOMAIN seq : i # j => seq[i] # seq[j]}

\* storage.createOrderConfiguration: a new row
ConfigInserted(c) ==
  /\ cfgPc = "idle"
  /\ c \notin orderConfigurations
  /\ orderConfigurations' = orderConfigurations \cup {c}
  /\ UNCHANGED <<orderBatches, cfgId, cfgPc, linkedBatches, unlinked,
                 cfgStatus>>
  /\ UNCHANGED cfgFrame

\* storage.createOrderBatch: configuration_id references an existing
\* configuration, or is null
BatchInserted(b, c) ==
  /\ orderBatches[b] = Unborn
  /\ c \in orderConfigurations \cup {nullId}
  /\ orderBatches' = [orderBatches EXCEPT ![b] =
                        [exists |-> TRUE, configurationId |-> c,
                         status |-> "pending", progress |-> 0]]
  /\ UNCHANGED <<orderConfigurations, cfgId, cfgPc, linkedBatches, unlinked,
                 cfgStatus>>
  /\ UNCHANGED cfgFrame

\* a run finalizes the batch
BatchCompleted(b) ==
  /\ orderBatches[b].exists
  /\ orderBatches[b].status = "pending"
  /\ orderBatches' = [orderBatches EXCEPT ![b] =
                        [@ EXCEPT !.status = "completed", !.progress = 100]]
  /\ UNCHANGED <<orderConfigurations, cfgId, cfgPc, linkedBatches, unlinked,
                 cfgStatus>>
  /\ UNCHANGED cfgFrame

\* DELETE /api/batches/:id of another client removes the row
BatchRemoved(b) ==
  /\ orderBatches[b].exists
  /\ orderBatches' = [orderBatches EXCEPT ![b] = Gone]
  /\ UNCHANGED <<orderConfigurations, cfgId, cfgPc, linkedBatches, unlinked,
                 cfgStatus>>
  /\ UNCHANGED cfgFrame

\* the request arrives; getOrderConfiguration(id) is only logged
CfgRequest(id) ==
  /\ cfgPc = "idle"
  /\ cfgId' = id
  /\ cfgPc' = "readBatches"
  /\ UNCHANGED <<orderConfigurations, orderBatches, linkedBatches, unlinked,
                 cfgStatus>>
  /\ UNCHANGED cfgFrame

\* const allBatches = await storage.getAllOrderBatches(); linkedBatches
CfgReadBatches ==
  /\ cfgPc = "readBatches"
  /\ linkedBatches' \in Listings(LinkedTo(cfgId))
  /\ unlinked' = LinkedTo(cfgId)
  /\ cfgPc' = IF LinkedTo(cfgId) = {} THEN "delete" ELSE "unlink"
  /\ UNCHANGED <<orderConfigurations, orderBatches, cfgId, cfgStatus>>
  /\ UNCHANGED cfgFrame

\* the linked batch is deleted with the configuration
CfgUnlinkCascades ==
  /\ cfgPc = "unlink"
  /\ orderBatches' = [orderBatches EXCEPT ![Head(linkedBatches)] = Gone]
  /\ linkedBatches' = Tail(linkedBatches)
  /\ cfgPc' = IF Tail(linkedBatches) = <<>> THEN "delete" ELSE "unlink"
  /\ UNCHANGED <<orderConfigurations, cfgId, unlinked, cfgStatus>>
  /\ UNCHANGED cfgFrame

\* await storage.updateOrderBatch(batch.id, { configurationId: null }); an
\* UPDATE for a row that is gone changes nothing
CfgUnlink ==
  /\ cfgPc = "unlink"
  /\ orderBatches' =
       [orderBatches EXCEPT ![Head(linkedBatches)] =
          IF @.exists THEN [@ EXCEPT !.configurationId = nullId] ELSE @]
  /\ linkedBatches' = Tail(linkedBatches)
  /\ cfgPc' = IF Tail(linkedBatches) = <<>> THEN "delete" ELSE "unlink"
  /\ UNCHANGED <<orderConfigurations, cfgId, unlinked, cfgStatus>>
  /\ UNCHANGED cfgFrame

\* storage.deleteOrderConfiguration(id): false without a row (404); the
\* DELETE is refused while a batch references the row (foreign key) and the
\* catch answers 500; otherwise the row is deleted (200)
CfgDelete ==
  /\ cfgPc = "delete"
  /\ IF cfgId \notin orderConfigurations
     THEN /\ cfgStatus' = 404
          /\ UNCHANGED orderConfigurations
     ELSE IF LinkedTo(cfgId) # {}
     THEN /\ cfgStatus' = 500
          /\ UNCHANGED orderConfigurations
     ELSE /\ cfgStatus' = 200
          /\ orderConfigurations' = orderConfigurations \ {cfgId}
  /\ cfgPc' = "done"
  /\ UNCHANGED <<orderBatches, cfgId, linkedBatches, unlinked>>
  /\ UNCHANGED cfgFrame

\* a storage call throws: the catch answers 500
CfgStorageThrows ==
  /\ cfgPc \in {"readBatches", "unlink", "delete"}
  /\ cfgStatus' = 500
  /\ cfgPc' = "done"
  /\ UNCHANGED <<orderConfigurations, orderBatches, cfgId, linkedBatches,
                 unlinked>>
  /\ UNCHANGED cfgFrame

NextConfig ==
  \/ \E c \in ConfigIds : ConfigInserted(c)
  \/ \E b \in LinkBatchIds, c \in ConfigIds \cup {nullId} : BatchInserted(b, c)
  \/ \E b \in LinkBatchIds : BatchCompleted(b)
  \/ \E b \in LinkBatchIds : BatchRemoved(b)
  \/ \E id \in ConfigIds : CfgRequest(id)
  \/ CfgReadBatches \/ CfgUnlink \/ CfgDelete \/ CfgStorageThrows

SpecConfig == InitWith(JsNumber(1), 1) /\ [][NextConfig]_vars

\* C38: the handler deletes no batch - each of its steps leaves every
\* existing batch in place, with the same fields except that a
\* configurationId equal to the id being deleted may become null; after a
\* deletion answered 200 the configuration is gone, no existing batch
\* references its id, and every batch the handler found linked that still
\* exists has configurationId null.
C38_State ==
  /\ \A b \in LinkBatchIds :
       orderBatches[b].exists =>
         orderBatches[b].configurationId \in orderConfigurations \cup {nullId}
  /\ cfgStatus = 200 =>
       /\ cfgId \notin orderConfigurations
       /\ LinkedTo(cfgId) = {}
       /\ \A b \in unlinked :
            orderBatches[b].exists => orderBatches[b].configurationId = nullId

C38_Step ==
  cfgPc' # cfgPc \/ linkedBatches' # linkedBatches =>
    \A b \in LinkBatchIds :
      IF orderBatches[b].exists
      THEN /\ orderBatches'[b].exists
           /\ orderBatches'[b].status = orderBatches[b].status
           /\ orderBatches'[b].progress = orderBatches[b].progress
           /\ \/ orderBatches'[b].configurationId
                   = orderBatches[b].configurationId
              \/ /\ orderBatches[b].configurationId = cfgId
                 /\ orderBatches'[b].configurationId = nullId
      ELSE orderBatches'[b] = orderBatches[b]

C38_ConfigurationDeleteUnlinks == []C38_State /\ [][C38_Step]_vars

\* the configuration was deleted; both batches had referenced it, one of
\* them finalized meanwhile, and both are still there without a reference
C38_Witness ==
  /\ cfgStatus = 200
  /\ unlinked = LinkBatchIds
  /\ \A b \in LinkBatchIds :
       orderBatches[b].exists /\ orderBatches[b].configurationId = nullId
  /\ \E b \in LinkBatchIds : orderBatches[b].status = "completed"

\* =================================================================
\* Termination of a run
\* =================================================================
\* the completeOrderBatch call of the catch block throws: the handler's
\* promise rejects, nothing is written and no response is sent
RunCatchThrows ==
  /\ pc = "catch"
  /\ pc' = "crashed"
  /\ UNCHANGED <<batch, rawOrderCount, orderCount, batchStart, currentBatch,
                 createdOrders, batchPromises, finalStatus, errorMessage,
                 response, caught, cancelPc, cancelCount, cancelWritten,
                 cancelDuringRun, thrown, issuedAfterCancel, stoppedByCancel,
                 progressLog, attempted, waveLog, finalizations,
                 settledOutOfOrder>>
  /\ UNCHANGED auxVars

InitLive == \E n \in 1..MaxBatchOrderCount : InitWith(JsNumber(n), n)

NextLive == Next \/ RunCatchThrows

\* every call that was made settles: a step that can be taken is taken
SpecLive == InitLive /\ [][NextLive]_vars /\ WF_vars(NextLive)

\* C39: every run comes to its end with the batch in a terminal status.
C39_RunTerminates ==
  <>(pc \in {"done", "failed"} /\ batch.status \in Terminal)

====
